---- MODULE Spec2Model ----
(***************************************************************************)
(* Model of the rule-based university chatbot core                         *)
(* (chatbot/ai_processor (3).py, class UniversityGuidanceChatbot) and of   *)
(* the DataManager it reads its context from (chatbot/data_manager.py).    *)
(*                                                                         *)
(* Texts are TLA+ strings; Python's `in`, str.lower, len, slicing and the  *)
(* regular expressions of the source are modelled character by character.  *)
(* A code point outside ASCII (the emoji of the reply templates) is        *)
(* written "?" - one "?" per code point, so that len() is preserved.       *)
(* Helpfulness scores are in tenths (0.3 is 3, 0.8 is 8).                  *)
(***************************************************************************)
EXTENDS Integers, Sequences, FiniteSets, TLC

(***************************************************************************)
(* Bounds                                                                  *)
(***************************************************************************)
MaxWords == 2

(***************************************************************************)
(* String primitives of the Python runtime                                 *)
(***************************************************************************)
UpperAlphabet == "ABCDEFGHIJKLMNOPQRSTUVWXYZ"

LowerAlphabet == "abcdefghijklmnopqrstuvwxyz"

WordAlphabet == "abcdefghijklmnopqrstuvwxyzABCDEFGHIJKLMNOPQRSTUVWXYZ0123456789_"

CharAt(s, i) == SubSeq(s, i, i)

\* kw in s
Contains(kw, s) ==
    \E i \in 1..(Len(s) - Len(kw) + 1) : SubSeq(s, i, i + Len(kw) - 1) = kw

\* the lower-case letter of every upper-case ASCII letter
LowerTable ==
    [c \in {CharAt(UpperAlphabet, i) : i \in 1..26} |->
        CharAt(LowerAlphabet, CHOOSE i \in 1..26 : CharAt(UpperAlphabet, i) = c)]

LowerChar(c) == IF c \in DOMAIN LowerTable THEN LowerTable[c] ELSE c

RECURSIVE Lower(_)
\* s.lower()
Lower(s) ==
    IF Len(s) = 0 THEN s
    ELSE IF Len(s) = 1 THEN LowerChar(s)
    ELSE Lower(SubSeq(s, 1, Len(s) \div 2)) \o Lower(SubSeq(s, Len(s) \div 2 + 1, Len(s)))

\* \w of the re module, on ASCII
IsWordChar(c) == Contains(c, WordAlphabet)

\* \b before position i of s (i in 1..Len(s)+1)
BoundaryAt(s, i) ==
    LET before == i > 1 /\ IsWordChar(CharAt(s, i - 1))
        after  == i <= Len(s) /\ IsWordChar(CharAt(s, i))
    IN before # after

\* re.search(r'\b(w)\b', s) for a literal w
SearchWord(w, s) ==
    \E i \in 1..(Len(s) - Len(w) + 1) :
        /\ SubSeq(s, i, i + Len(w) - 1) = w
        /\ BoundaryAt(s, i)
        /\ BoundaryAt(s, i + Len(w))

\* re.search(r'\b(a.*b)\b', s) for literals a and b; '.' matches no newline
SearchGap(a, b, s) ==
    \E i \in 1..(Len(s) - Len(a) + 1) :
        /\ SubSeq(s, i, i + Len(a) - 1) = a
        /\ BoundaryAt(s, i)
        /\ \E j \in (i + Len(a))..(Len(s) - Len(b) + 1) :
              /\ SubSeq(s, j, j + Len(b) - 1) = b
              /\ BoundaryAt(s, j + Len(b))
              /\ ~Contains("\n", SubSeq(s, i + Len(a), j - 1))

(***************************************************************************)
(* Policy filter                                                           *)
(***************************************************************************)
DisallowedWords == {"prettiest", "ugliest", "worst teacher", "best looking", "hottest",
                    "gossip", "rumors"}

DisallowedGaps == {<<"rank", "students">>, <<"rank", "staff">>,
                   <<"personal", "information">>, <<"private", "data">>}

_is_disallowed_request(message) ==
    LET message_lower == Lower(message)
    IN \/ \E w \in DisallowedWords : SearchWord(w, message_lower)
       \/ \E g \in DisallowedGaps : SearchGap(g[1], g[2], message_lower)

REFUSAL_TEXT == "I can't help identify or rank private individuals by appearance or make negative claims about staff. I can help in one of these ways: (1) run an anonymous poll for campus awards, (2) show campus-approved highlights or official recognitions, (3) explain how to submit formal feedback. Which would you prefer?"

\* The refusal with the urgency flag computed from the message
_handle_disallowed_request_urgent(message) ==
    [message |-> REFUSAL_TEXT, is_urgent |-> Contains("deadline", Lower(message)),
     helpfulness |-> 6, intent |-> "policy_violation"]

_handle_disallowed_request(message) ==
    [message |-> REFUSAL_TEXT, is_urgent |-> FALSE, helpfulness |-> 6,
     intent |-> "policy_violation"]

(***************************************************************************)
(* Intent classifier                                                       *)
(***************************************************************************)
university_info_keywords ==
    {"rector name", "pro-rector name", "pro rector", "history", "about university",
     "university information", "general information", "transportation",
     "bus number", "bus no", "how to get", "location"}

contact_keywords ==
    {"contact", "phone", "email", "office", "address", "location",
     "office hours", "department"}

known_entities_for_contact ==
    {"civil department", "admissions", "library", "registrar",
     "department", "student affairs", "mechanical department",
     "IT department", "administration", "office"}

greeting_words ==
    {"hello", "hi", "hey", "good morning", "good afternoon", "good evening"}

campus_keywords ==
    {"campus", "facility", "library", "hostel", "cafeteria", "sports",
     "gym", "dormitory"}

program_keywords ==
    {"program", "course", "degree", "study", "major", "curriculum",
     "engineering", "it", "computer", "civil", "electrical",
     "mechanical", "software"}

club_keywords ==
    {"club", "organization", "societies", "groups", "student club",
     "extracurricular", "membership", "join club"}

event_keywords ==
    {"event", "events", "festival", "ceremony", "workshop",
     "competition", "upcoming", "schedule"}

student_life_keywords == {"student life", "activities", "campus life"}

admission_keywords ==
    {"admission", "apply", "application", "deadline", "entrance", "enroll"}

scholarship_keywords ==
    {"scholarship", "financial aid", "grant", "funding", "assistance"}

news_keywords == {"news", "latest", "updates", "announcements"}

\* any(k in s for k in ks)
AnyIn(ks, s) == \E k \in ks : Contains(k, s)

\* The membership test of one category on the lower-cased message.
RuleMatches(category, message_lower) ==
    CASE category = "university_info" -> AnyIn(university_info_keywords, message_lower)
      [] category = "contact" -> /\ AnyIn(contact_keywords, message_lower)
                                 /\ AnyIn(known_entities_for_contact, message_lower)
      [] category = "greeting" -> \E w \in greeting_words : SearchWord(w, message_lower)
      [] category = "campus" -> AnyIn(campus_keywords, message_lower)
      [] category = "programs" -> AnyIn(program_keywords, message_lower)
      [] category = "clubs" -> AnyIn(club_keywords, message_lower)
      [] category = "events" -> AnyIn(event_keywords, message_lower)
      [] category = "student_life" -> AnyIn(student_life_keywords, message_lower)
      [] category = "admission" -> AnyIn(admission_keywords, message_lower)
      [] category = "scholarships" -> AnyIn(scholarship_keywords, message_lower)
      [] category = "news" -> AnyIn(news_keywords, message_lower)
      [] OTHER -> FALSE

\* The classifier with the clubs test moved before the programs test
_classify_message_intent_clubs_first(message) ==
    LET message_lower == Lower(message)
    IN IF RuleMatches("university_info", message_lower) THEN "university_info"
       ELSE IF RuleMatches("contact", message_lower) THEN "contact"
       ELSE IF RuleMatches("greeting", message_lower) THEN "greeting"
       ELSE IF RuleMatches("campus", message_lower) THEN "campus"
       ELSE IF RuleMatches("clubs", message_lower) THEN "clubs"
       ELSE IF RuleMatches("programs", message_lower) THEN "programs"
       ELSE IF RuleMatches("events", message_lower) THEN "events"
       ELSE IF RuleMatches("student_life", message_lower) THEN "student_life"
       ELSE IF RuleMatches("admission", message_lower) THEN "admission"
       ELSE IF RuleMatches("scholarships", message_lower) THEN "scholarships"
       ELSE IF RuleMatches("news", message_lower) THEN "news"
       ELSE "default"

\* The classifier with the greeting test moved behind the campus test
_classify_message_intent_campus_first(message) ==
    LET message_lower == Lower(message)
    IN IF RuleMatches("university_info", message_lower) THEN "university_info"
       ELSE IF RuleMatches("contact", message_lower) THEN "contact"
       ELSE IF RuleMatches("campus", message_lower) THEN "campus"
       ELSE IF RuleMatches("greeting", message_lower) THEN "greeting"
       ELSE IF RuleMatches("programs", message_lower) THEN "programs"
       ELSE IF RuleMatches("clubs", message_lower) THEN "clubs"
       ELSE IF RuleMatches("events", message_lower) THEN "events"
       ELSE IF RuleMatches("student_life", message_lower) THEN "student_life"
       ELSE IF RuleMatches("admission", message_lower) THEN "admission"
       ELSE IF RuleMatches("scholarships", message_lower) THEN "scholarships"
       ELSE IF RuleMatches("news", message_lower) THEN "news"
       ELSE "default"

_classify_message_intent(message) ==
    LET message_lower == Lower(message)
    IN IF RuleMatches("university_info", message_lower) THEN "university_info"
       ELSE IF RuleMatches("contact", message_lower) THEN "contact"
       ELSE IF RuleMatches("greeting", message_lower) THEN "greeting"
       ELSE IF RuleMatches("campus", message_lower) THEN "campus"
       ELSE IF RuleMatches("programs", message_lower) THEN "programs"
       ELSE IF RuleMatches("clubs", message_lower) THEN "clubs"
       ELSE IF RuleMatches("events", message_lower) THEN "events"
       ELSE IF RuleMatches("student_life", message_lower) THEN "student_life"
       ELSE IF RuleMatches("admission", message_lower) THEN "admission"
       ELSE IF RuleMatches("scholarships", message_lower) THEN "scholarships"
       ELSE IF RuleMatches("news", message_lower) THEN "news"
       ELSE "default"

(***************************************************************************)
(* Response analyzer                                                       *)
(***************************************************************************)
urgency_keywords ==
    {"urgent", "emergency", "deadline", "immediately", "asap", "help", "problem"}

lack_of_info_phrases ==
    {"I don't have that info", "I'm not sure", "Sorry, I couldn't retrieve"}

contact_channel_words == {"contact", "office", "email", "phone"}

\* The analyzer scoring a short reply like a failure
_analyze_response_short_3(user_message, response) ==
    [is_urgent |-> AnyIn(urgency_keywords, Lower(user_message)),
     helpfulness |->
        IF Len(response) < 50 THEN 3
        ELSE IF AnyIn(lack_of_info_phrases, response) THEN 6
        ELSE IF AnyIn(contact_channel_words, Lower(response)) THEN 9
        ELSE 8]

\* The analyzer reading the urgency off the reply instead of the message
_analyze_response_urgent_reply(user_message, response) ==
    [is_urgent |-> AnyIn(urgency_keywords, Lower(response)),
     helpfulness |->
        IF Len(response) < 50 THEN 5
        ELSE IF AnyIn(lack_of_info_phrases, response) THEN 6
        ELSE IF AnyIn(contact_channel_words, Lower(response)) THEN 9
        ELSE 8]

_analyze_response(user_message, response) ==
    [is_urgent |-> AnyIn(urgency_keywords, Lower(user_message)),
     helpfulness |->
        IF Len(response) < 50 THEN 5
        ELSE IF AnyIn(lack_of_info_phrases, response) THEN 6
        ELSE IF AnyIn(contact_channel_words, Lower(response)) THEN 9
        ELSE 8]

(***************************************************************************)
(* More string primitives, used by the DataManager                         *)
(***************************************************************************)
Digits == "0123456789"

RECURSIVE ToStr(_)
\* str(n) for a natural number n
ToStr(n) ==
    IF n < 10 THEN CharAt(Digits, n + 1)
    ELSE ToStr(n \div 10) \o CharAt(Digits, (n % 10) + 1)

\* '%02d' % n
Pad2(n) == IF n < 10 THEN "0" \o ToStr(n) ELSE ToStr(n)

IsSpace(c) == c \in {" ", "\n", "\t", "\r"}

RECURSIVE LStrip(_)
LStrip(s) == IF Len(s) > 0 /\ IsSpace(CharAt(s, 1)) THEN LStrip(Tail(s)) ELSE s

RECURSIVE RStrip(_)
RStrip(s) ==
    IF Len(s) > 0 /\ IsSpace(CharAt(s, Len(s))) THEN RStrip(SubSeq(s, 1, Len(s) - 1)) ELSE s

\* s.strip()
Strip(s) == LStrip(RStrip(s))

RECURSIVE SplitComma(_)
\* s.split(',')
SplitComma(s) ==
    IF ~Contains(",", s) THEN <<s>>
    ELSE LET i == CHOOSE k \in 1..Len(s) :
                     /\ CharAt(s, k) = ","
                     /\ \A j \in 1..(k - 1) : CharAt(s, j) # ","
         IN <<SubSeq(s, 1, i - 1)>> \o SplitComma(SubSeq(s, i + 1, Len(s)))

RECURSIVE Join(_, _)
\* sep.join(xs)
Join(sep, xs) ==
    IF Len(xs) = 0 THEN ""
    ELSE IF Len(xs) = 1 THEN xs[1]
    ELSE xs[1] \o sep \o Join(sep, Tail(xs))

\* [f(x) for x in xs]
MapSeq(f(_), xs) == [i \in 1..Len(xs) |-> f(xs[i])]

\* [x for x in xs if keep(x)]
FilterSeq(keep(_), xs) ==
    LET RECURSIVE From(_)
        From(i) == IF i > Len(xs) THEN <<>>
                   ELSE (IF keep(xs[i]) THEN <<xs[i]>> ELSE <<>>) \o From(i + 1)
    IN From(1)

\* xs[:n]
Take(xs, n) == SubSeq(xs, 1, IF Len(xs) < n THEN Len(xs) ELSE n)

\* s[:n] of a string
TakeStr(s, n) == SubSeq(s, 1, IF Len(s) < n THEN Len(s) ELSE n)

\* s.replace(" ", "")
RECURSIVE RemoveSpaces(_)
RemoveSpaces(s) ==
    IF Len(s) = 0 THEN s
    ELSE IF Len(s) = 1 THEN (IF s = " " THEN "" ELSE s)
    ELSE RemoveSpaces(SubSeq(s, 1, Len(s) \div 2))
            \o RemoveSpaces(SubSeq(s, Len(s) \div 2 + 1, Len(s)))

\* d.get(k, default) on a record
Get(d, k, default) == IF k \in DOMAIN d THEN d[k] ELSE default

MonthNames == <<"January", "February", "March", "April", "May", "June", "July",
                "August", "September", "October", "November", "December">>

\* date.strftime('%B %d, %Y')
FormatDate(t) == MonthNames[t.m] \o " " \o Pad2(t.d) \o ", " \o ToStr(t.y)

\* datetime.strftime('%B %d, %Y at %I:%M %p')
FormatDateTime(t) ==
    FormatDate(t) \o " at "
        \o Pad2(IF t.hh % 12 = 0 THEN 12 ELSE t.hh % 12) \o ":" \o Pad2(t.mi)
        \o " " \o (IF t.hh < 12 THEN "AM" ELSE "PM")

\* datetime.strftime('%Y-%m-%d')
FormatIsoDate(t) == ToStr(t.y) \o "-" \o Pad2(t.m) \o "-" \o Pad2(t.d)

\* a <= b on datetimes
TimeLeq(a, b) ==
    <<a.y, a.m, a.d, a.hh, a.mi>> = <<b.y, b.m, b.d, b.hh, b.mi>>
    \/ \E i \in 1..5 :
          LET x == <<a.y, a.m, a.d, a.hh, a.mi>>
              y == <<b.y, b.m, b.d, b.hh, b.mi>>
          IN (\A j \in 1..(i - 1) : x[j] = y[j]) /\ x[i] < y[i]

(***************************************************************************)
(* Content Store: the rows of the Django tables the DataManager reads.     *)
(* A store state is [models, rows]: models says whether chatbot.models can *)
(* be imported and queried ("ok"), cannot ("unavailable": the import fails *)
(* with ImportError / ImproperlyConfigured or a query raises, both of      *)
(* which make every getter return its fallback), or whether the import     *)
(* raises some other exception ("broken", which no getter catches).        *)
(* With models "ok" every table holds its first `rows` catalogue rows.     *)
(***************************************************************************)
MaxRows == 3

T(y, m, d, hh, mi) == [y |-> y, m |-> m, d |-> d, hh |-> hh, mi |-> mi]

\* timezone.now()
Now == T(2025, 6, 15, 12, 0)

NoDate == [none |-> TRUE]

IsNone(t) == "none" \in DOMAIN t

NameOf(names, base, k) == IF k <= Len(names) THEN names[k] ELSE base \o " " \o ToStr(k)

FACILITY_TYPES == <<
    <<"library", "Library">>, <<"laboratory", "Laboratory">>, <<"hostel", "Hostel">>,
    <<"sports", "Sports Facility">>, <<"cafeteria", "Cafeteria">>,
    <<"transport", "Transportation">>, <<"other", "Other">> >>

BENEFIT_TYPES == <<
    <<"tuition_reduction", "Tuition Reduction">>, <<"full_tuition", "Full Tuition Waiver">>,
    <<"stipend", "Monthly Stipend">>, <<"other", "Other Benefits">> >>

CLUB_TYPES == <<
    <<"academic", "Academic">>, <<"sports", "Sports">>, <<"cultural", "Cultural">>,
    <<"volunteer", "Volunteer">>, <<"professional", "Professional">>, <<"other", "Other">> >>

EVENT_TYPES == <<
    <<"academic", "Academic">>, <<"cultural", "Cultural">>, <<"sports", "Sports">>,
    <<"festival", "Festival">>, <<"ceremony", "Ceremony">>, <<"workshop", "Workshop">>,
    <<"competition", "Competition">>, <<"other", "Other">> >>

NEWS_CATEGORIES == <<
    <<"general", "General">>, <<"academic", "Academic">>, <<"events", "Events">>,
    <<"facilities", "Facilities">>, <<"achievements", "Achievements">>,
    <<"announcements", "Announcements">>, <<"entertainment", "Entertainment">> >>

UniversityProgram(k) ==
    [name |-> NameOf(<<"Civil Engineering", "Information Technology", "Architecture">>,
                     "Program", k),
     duration |-> "5 years",
     description |-> "Undergraduate program",
     entry_requirements |-> "Matriculation exam pass",
     career_paths |-> IF k = 2 THEN "Not specified" ELSE "Engineer, Site Manager",
     subjects |-> "Mathematics, Physics",
     job_prospects |-> "Not specified",
     salary_range |-> IF k = 1 THEN "Not specified" ELSE "300,000 - 800,000 MMK",
     is_active |-> k # 3]

CampusFacility(k) ==
    [name |-> NameOf(<<"Central Library", "Computer Lab", "Old Hostel", "Reading Room">>,
                     "Facility", k),
     facility_type |-> IF k \in {1, 4} THEN "library"
                       ELSE IF k = 2 THEN "laboratory"
                       ELSE IF k = 3 THEN "hostel" ELSE "other",
     capacity |-> IF k = 1 THEN "200 seats" ELSE "",
     is_available |-> k # 3]

ContactInformation(k) ==
    [department |-> NameOf(<<"Admissions Office", "Civil Engineering Department", "Library">>,
                           "Department", k),
     phone |-> "+95-1-555000",
     email |-> "dept@hmawbi.edu.mm",
     teacher |-> "Dr. Aung",
     office_location |-> IF k = 2 THEN "" ELSE "Main Building",
     office_hours |-> "9AM-4PM",
     description |-> IF k = 1 THEN "" ELSE "Handles inquiries",
     is_active |-> k # 3]

AdmissionInfo(k) ==
    [academic_year |-> IF k = 1 THEN "2024-2025" ELSE "2025-2026",
     application_deadline |-> T(2025, 5, 31, 0, 0),
     entrance_exam_date |-> IF k = 2 THEN NoDate ELSE T(2025, 7, 4, 0, 0),
     application_fee |-> [units |-> 5000, cents |-> 0],
     requirements |-> "Matriculation exam pass",
     documents_needed |-> "Transcript, ID card",
     contact_email |-> "admissions@hmawbi.edu.mm",
     contact_phone |-> "+95-1-555001",
     office_hours |-> "9AM-4PM",
     is_current |-> k = 2]

Scholarship(k) ==
    [name |-> NameOf(<<"Merit Scholarship", "Need Grant", "Sports Award">>, "Scholarship", k),
     description |-> "Support for students",
     eligibility_criteria |-> "GPA above 3.5",
     benefit_amount |-> "50% of tuition",
     benefit_type |-> IF k = 1 THEN "tuition_reduction" ELSE IF k = 2 THEN "stipend" ELSE "other",
     application_deadline |-> IF k = 1 THEN T(2025, 8, 1, 0, 0) ELSE NoDate,
     application_process |-> IF k = 2 THEN "" ELSE "Submit the form",
     is_active |-> k # 3]

StudentClub(k) ==
    [name |-> NameOf(<<"Robotics Club", "Drama Club", "Chess Club">>, "Club", k),
     description |-> "A student club",
     club_type |-> IF k = 1 THEN "academic" ELSE IF k = 2 THEN "cultural" ELSE "other",
     advisor |-> IF k = 1 THEN "Dr. Aung" ELSE "",
     contact_email |-> IF k = 1 THEN "robotics@hmawbi.edu.mm" ELSE "",
     meeting_schedule |-> IF k = 1 THEN "Fridays 3PM" ELSE "",
     membership_requirements |-> IF k = 1 THEN "Engineering students" ELSE "",
     established_date |-> IF k = 1 THEN T(2019, 1, 10, 0, 0) ELSE NoDate,
     is_active |-> k # 3]

UniversityEvent(k) ==
    [title |-> NameOf(<<"Tech Festival", "Old Ceremony", "Closed Workshop">>, "Event", k),
     description |-> "A university gathering",
     event_type |-> IF k = 1 THEN "festival" ELSE IF k = 2 THEN "ceremony" ELSE "workshop",
     \* row 2 lies in the past, the others in the future, later rows first
     start_date |-> IF k = 2 THEN T(2025, 1, 10, 9, 0) ELSE T(2025, 12, 31 - (k % 28), 14, 30),
     end_date |-> IF k = 2 THEN T(2025, 1, 10, 12, 0) ELSE T(2025, 12, 31 - (k % 28), 17, 0),
     location |-> "Main Hall",
     organizer |-> IF k = 1 THEN "Student Union" ELSE "",
     registration_required |-> k = 1,
     registration_deadline |-> IF k = 1 THEN T(2025, 12, 1, 0, 0) ELSE NoDate,
     contact_info |-> IF k = 1 THEN "events@hmawbi.edu.mm" ELSE "",
     is_public |-> k # 3,
     max_participants |-> IF k = 1 THEN 100 ELSE 0]

UniversityNews(k) ==
    [pk |-> k,
     title |-> NameOf(<<"New Library Opens", "Exam Timetable", "Hidden Draft", "Unapproved Item">>,
                      "Bulletin", k),
     content |-> IF k = 2
                 THEN "The examination timetable for the second semester has been released and every student should check the notice board."
                 \* row 7 holds 100 characters, row 6 holds 101
                 ELSE IF k = 7
                 THEN "Registration for the second semester closes on Friday; bring the student card to the main office no."
                 ELSE IF k = 6
                 THEN "The sports ground is closed for repair until the end of the month; training moves to the hall nearby."
                 ELSE "The new wing is open.",
     category |-> IF k = 1 THEN "facilities" ELSE IF k = 2 THEN "academic" ELSE "general",
     tags |-> IF k = 1 THEN "library, campus" ELSE "",
     is_published |-> k # 3,
     content_approved |-> k # 4,
     created_at |-> T(2025, 1 + (k % 5), 1 + (k % 28), 8, 0)]

\* info_type holds the label _get_display_value returns for the row
UniversityInfo(k) ==
    [title |-> NameOf(<<"Our Rector", "University History", "Getting Here">>, "Info", k),
     info_type |-> NameOf(<<"Leadership", "History", "Location & Transportation">>, "General", k),
     content |-> IF k = 2
                 THEN "HMAWBI University was founded to train engineers for the region and has grown from a single department into a full technological university with six faculties."
                 ELSE "Rector: Dr. John Doe",
     description |-> IF k = 1 THEN "" ELSE "See the website",
     is_active |-> k # 3]

\* Model.objects.all() of a table
Table(row(_), n) == [k \in 1..n |-> row(k)]

Stores ==
    [models : {"ok"}, rows : 0..MaxRows]
        \cup [models : {"unavailable", "broken"}, rows : {0}]

(***************************************************************************)
(* DataManager.  A getter returns [raised |-> TRUE] when an exception      *)
(* leaves it and [raised |-> FALSE, value |-> v] otherwise.  A Python dict *)
(* with data-dependent keys is a sequence of [key, value] entries in       *)
(* insertion order; a dict with fixed keys is a record.                    *)
(***************************************************************************)
Returned(v) == [raised |-> FALSE, value |-> v]

Raised == [raised |-> TRUE]

\* dict[key] = value
DictSet(entries, key, value) ==
    IF \E i \in 1..Len(entries) : entries[i].key = key
    THEN [i \in 1..Len(entries) |->
             IF entries[i].key = key THEN [key |-> key, value |-> value] ELSE entries[i]]
    ELSE Append(entries, [key |-> key, value |-> value])

\* dict[key], the key being present
DictGet(entries, key) ==
    entries[CHOOSE i \in 1..Len(entries) : entries[i].key = key].value

HasKey(entries, key) == \E i \in 1..Len(entries) : entries[i].key = key

\* queryset.order_by(...): a stable sort
SortBy(xs, leq(_, _)) ==
    LET RECURSIVE InsertSorted(_, _)
        InsertSorted(x, ys) ==
            IF Len(ys) = 0 THEN <<x>>
            ELSE IF leq(ys[1], x) THEN <<ys[1]>> \o InsertSorted(x, Tail(ys))
            ELSE <<x>> \o ys
        RECURSIVE Sorted(_)
        Sorted(n) == IF n = 0 THEN <<>> ELSE InsertSorted(xs[n], Sorted(n - 1))
    IN Sorted(Len(xs))

_get_display_value(choices, field_value) ==
    IF \E i \in 1..Len(choices) : choices[i][1] = field_value
    THEN choices[CHOOSE i \in 1..Len(choices) : choices[i][1] = field_value][2]
    ELSE IF field_value # "" THEN field_value ELSE "Unknown"

fallback_data ==
    [programs |-> <<[key |-> "Civil Engineering",
                     value |-> [duration |-> "5 years",
                                description |-> "Comprehensive civil engineering program",
                                career_paths |-> <<"Civil Engineer", "Construction Manager">>,
                                entry_requirements |-> "Matriculation with strong math and physics"]]>>,
     campus |-> [location |-> "Hmawbi Township, Yangon Region",
                 facilities |-> [kind |-> "list",
                                 entries |-> <<"Library", "Computer Lab", "Hostel">>]],
     admission |-> [deadline |-> "May 31st", contact_email |-> "admissions@hmawbi.edu.mm"],
     university_info |->
        <<[key |-> "General Information",
           value |-> [kind |-> "str", s |-> "HMAWBI University is a leading institution in Myanmar."]],
          [key |-> "Leadership",
           value |-> [kind |-> "str", s |-> "Rector: Dr. John Doe, Pro-Rector: Dr. Jane Smith"]],
          [key |-> "Location & Transportation",
           value |-> [kind |-> "str", s |-> "Located in Hmawbi Township, accessible by Bus No. 45, 67"]]>>]

IsActive(r) == r.is_active

StripItem(x) == Strip(x)

get_all_programs(st) ==
    IF st.models = "broken" THEN Raised
    ELSE IF st.models = "unavailable" THEN Returned(fallback_data.programs)
    ELSE LET programs == FilterSeq(IsActive, Table(UniversityProgram, st.rows))
             Entry(program) ==
                [duration |-> program.duration,
                 description |-> program.description,
                 career_paths |-> MapSeq(StripItem, SplitComma(program.career_paths)),
                 entry_requirements |-> program.entry_requirements,
                 subjects |-> MapSeq(StripItem, SplitComma(program.subjects)),
                 job_prospects |-> program.job_prospects,
                 salary_range |-> program.salary_range]
             RECURSIVE Build(_, _)
             Build(i, result) ==
                IF i > Len(programs) THEN result
                ELSE Build(i + 1, DictSet(result, programs[i].name, Entry(programs[i])))
         IN Returned(Build(1, <<>>))

get_campus_info(st) ==
    IF st.models = "broken" THEN Raised
    ELSE IF st.models = "unavailable" THEN Returned(fallback_data.campus)
    ELSE LET IsAvailable(f) == f.is_available
             facilities == FilterSeq(IsAvailable, Table(CampusFacility, st.rows))
             contacts == FilterSeq(IsActive, Table(ContactInformation, st.rows))
             Info(facility) ==
                IF facility.capacity # ""
                THEN facility.name \o " (" \o facility.capacity \o ")"
                ELSE facility.name
             RECURSIVE ByType(_, _)
             ByType(i, result) ==
                IF i > Len(facilities) THEN result
                ELSE LET display == _get_display_value(FACILITY_TYPES, facilities[i].facility_type)
                         old == IF HasKey(result, display) THEN DictGet(result, display) ELSE <<>>
                     IN ByType(i + 1, DictSet(result, display, Append(old, Info(facilities[i]))))
             RECURSIVE Contacts(_, _)
             Contacts(i, result) ==
                IF i > Len(contacts) THEN result
                ELSE Contacts(i + 1, DictSet(result, contacts[i].department,
                                 [phone |-> contacts[i].phone, email |-> contacts[i].email,
                                  location |-> contacts[i].office_location,
                                  hours |-> contacts[i].office_hours]))
         IN Returned([location |-> "Hmawbi Township, Yangon Region, Myanmar",
                      facilities |-> [kind |-> "dict", entries |-> ByType(1, <<>>)],
                      contact |-> Contacts(1, <<>>)])

get_admission_info(st) ==
    IF st.models = "broken" THEN Raised
    ELSE IF st.models = "unavailable" THEN Returned(fallback_data.admission)
    ELSE LET IsCurrent(a) == a.is_current
             current == FilterSeq(IsCurrent, Table(AdmissionInfo, st.rows))
             scholarships == FilterSeq(IsActive, Table(Scholarship, st.rows))
             Brief(sch) == [name |-> sch.name, criteria |-> sch.eligibility_criteria,
                            benefit |-> sch.benefit_amount]
             scholarship_list == [scholarships |-> MapSeq(Brief, scholarships)]
         IN IF Len(current) = 0 THEN Returned(scholarship_list)
            ELSE LET a == current[1]
                 IN Returned(
                      [academic_year |-> a.academic_year,
                       application_deadline |-> FormatDate(a.application_deadline),
                       entrance_exam_date |-> IF IsNone(a.entrance_exam_date) THEN "TBA"
                                              ELSE FormatDate(a.entrance_exam_date),
                       requirements |-> a.requirements,
                       documents_needed |-> a.documents_needed,
                       contact_email |-> a.contact_email,
                       contact_phone |-> a.contact_phone,
                       office_hours |-> a.office_hours,
                       application_fee |-> ToStr(a.application_fee.units) \o "."
                                              \o Pad2(a.application_fee.cents) \o " MMK"]
                      @@ scholarship_list)

get_scholarships(st) ==
    IF st.models = "broken" THEN Raised
    ELSE IF st.models = "unavailable" THEN Returned(<<>>)
    ELSE LET Entry(sch) ==
                [name |-> sch.name,
                 description |-> sch.description,
                 criteria |-> sch.eligibility_criteria,
                 benefit |-> sch.benefit_amount,
                 benefit_type |-> _get_display_value(BENEFIT_TYPES, sch.benefit_type),
                 deadline |-> IF IsNone(sch.application_deadline) THEN "No deadline specified"
                              ELSE FormatDate(sch.application_deadline),
                 application_process |-> sch.application_process]
         IN Returned(MapSeq(Entry, FilterSeq(IsActive, Table(Scholarship, st.rows))))

StartsBefore(a, b) == TimeLeq(a.start_date, b.start_date)

Upcoming(e) == TimeLeq(Now, e.start_date)

get_student_life_info(st) ==
    IF st.models = "broken" THEN Raised
    ELSE IF st.models = "unavailable"
    THEN Returned([clubs_organizations |-> <<"Engineering Student Association",
                                             "Computer Club", "Drama Club">>,
                   upcoming_events |-> <<>>])
    ELSE LET clubs == FilterSeq(IsActive, Table(StudentClub, st.rows))
             ClubName(c) == c.name
             IsUpcomingPublic(e) == Upcoming(e) /\ e.is_public
             upcoming_events ==
                Take(SortBy(FilterSeq(IsUpcomingPublic, Table(UniversityEvent, st.rows)),
                            StartsBefore), 10)
             Entry(event) ==
                [title |-> event.title,
                 date |-> FormatDate(event.start_date),
                 location |-> event.location,
                 type |-> _get_display_value(EVENT_TYPES, event.event_type)]
         IN Returned([clubs_organizations |-> MapSeq(ClubName, clubs),
                      upcoming_events |-> MapSeq(Entry, upcoming_events)])

get_all_clubs(st) ==
    IF st.models = "broken" THEN Raised
    ELSE IF st.models = "unavailable" THEN Returned(<<>>)
    ELSE LET Entry(club) ==
                [name |-> club.name,
                 description |-> club.description,
                 club_type |-> _get_display_value(CLUB_TYPES, club.club_type),
                 advisor |-> IF club.advisor # "" THEN club.advisor ELSE "TBA",
                 contact_email |-> IF club.contact_email # "" THEN club.contact_email
                                   ELSE "Contact student services",
                 meeting_schedule |-> IF club.meeting_schedule # "" THEN club.meeting_schedule
                                      ELSE "TBA",
                 membership_requirements |->
                    IF club.membership_requirements # "" THEN club.membership_requirements
                    ELSE "Open to all students",
                 established_date |-> IF IsNone(club.established_date) THEN "N/A"
                                      ELSE ToStr(club.established_date.y)]
         IN Returned(MapSeq(Entry, FilterSeq(IsActive, Table(StudentClub, st.rows))))

\* max_participants is an int or the text 'No limit'; 0 stands for NULL
EventEntry(event) ==
    [title |-> event.title,
     description |-> event.description,
     event_type |-> _get_display_value(EVENT_TYPES, event.event_type),
     start_date |-> FormatDateTime(event.start_date),
     end_date |-> FormatDateTime(event.end_date),
     location |-> event.location,
     organizer |-> IF event.organizer # "" THEN event.organizer ELSE "University",
     registration_required |-> event.registration_required,
     registration_deadline |-> IF IsNone(event.registration_deadline) THEN "N/A"
                               ELSE FormatDate(event.registration_deadline),
     contact_info |-> IF event.contact_info # "" THEN event.contact_info
                      ELSE "Contact event organizer",
     max_participants |-> IF event.max_participants # 0 THEN ToStr(event.max_participants)
                          ELSE "No limit"]

get_all_events(st) ==
    IF st.models = "broken" THEN Raised
    ELSE IF st.models = "unavailable" THEN Returned(<<>>)
    ELSE LET IsUpcomingPublic(e) == Upcoming(e) /\ e.is_public
         IN Returned(MapSeq(EventEntry,
                 SortBy(FilterSeq(IsUpcomingPublic, Table(UniversityEvent, st.rows)),
                        StartsBefore)))

default_news ==
    <<[title |-> "Welcome to HMAWBI University",
       content |-> "New academic year has started with exciting opportunities",
       category |-> "General",
       date |-> "2024-01-15",
       tags |-> <<>>]>>

\* UniversityNews.objects: the rows saved through the admin when the store
\* holds any, else the rows of the fixture
NewsTable(st) ==
    IF "news" \in DOMAIN st THEN st.news ELSE Table(UniversityNews, st.rows)

get_latest_news(st, limit) ==
    IF st.models = "broken" THEN Raised
    ELSE IF st.models = "unavailable" THEN Returned(default_news)
    ELSE LET Visible(n) == n.is_published /\ n.content_approved
             NewerFirst(a, b) == TimeLeq(b.created_at, a.created_at)
             NonEmpty(tag) == Strip(tag) # ""
             news_items == Take(SortBy(FilterSeq(Visible, NewsTable(st)),
                                       NewerFirst), limit)
             Entry(news) ==
                [id |-> news.pk,
                 title |-> news.title,
                 content |-> news.content,
                 category |-> _get_display_value(NEWS_CATEGORIES, news.category),
                 date |-> FormatIsoDate(news.created_at),
                 tags |-> IF news.tags # ""
                          THEN MapSeq(StripItem, FilterSeq(NonEmpty, SplitComma(news.tags)))
                          ELSE <<>>]
         IN Returned(MapSeq(Entry, news_items))

default_contact ==
    <<[key |-> "phone", value |-> [kind |-> "str", s |-> "+95-1-234567"]],
      [key |-> "email", value |-> [kind |-> "str", s |-> "info@hmawbi.edu.mm"]],
      [key |-> "teacher", value |-> [kind |-> "str", s |-> "Dr.MayCho"]],
      [key |-> "office_hours", value |-> [kind |-> "str", s |-> "Monday-Friday 9AM-4PM"]],
      [key |-> "description", value |-> [kind |-> "str", s |-> "University Information"]]>>

\* get_contact_info() without a department
get_contact_info(st) ==
    IF st.models = "broken" THEN Raised
    ELSE IF st.models = "unavailable" THEN Returned(default_contact)
    ELSE LET contacts == FilterSeq(IsActive, Table(ContactInformation, st.rows))
             Entry(contact) ==
                [kind |-> "dict",
                 phone |-> contact.phone,
                 email |-> contact.email,
                 teacher |-> contact.teacher,
                 location |-> contact.office_location,
                 hours |-> contact.office_hours,
                 description |-> IF contact.description # "" THEN contact.description
                                 ELSE "Not specified"]
             RECURSIVE Build(_, _)
             Build(i, result) ==
                IF i > Len(contacts) THEN result
                ELSE Build(i + 1, DictSet(result, contacts[i].department, Entry(contacts[i])))
             result == Build(1, <<>>)
         IN Returned(IF Len(result) > 0 THEN result ELSE default_contact)

\* get_university_info() without an info_type
get_university_info(st) ==
    IF st.models = "broken" THEN Raised
    ELSE IF st.models = "unavailable" THEN Returned(fallback_data.university_info)
    ELSE LET info_items == FilterSeq(IsActive, Table(UniversityInfo, st.rows))
             Entry(info) ==
                [kind |-> "dict",
                 title |-> info.title,
                 content |-> info.content,
                 description |-> IF info.description # "" THEN info.description
                                 ELSE "Not specified"]
             RECURSIVE Build(_, _)
             Build(i, result) ==
                IF i > Len(info_items) THEN result
                ELSE Build(i + 1, DictSet(result, info_items[i].info_type, Entry(info_items[i])))
             result == Build(1, <<>>)
         IN Returned(IF Len(result) > 0 THEN result ELSE fallback_data.university_info)

(***************************************************************************)
(* Context loader                                                          *)
(***************************************************************************)
EmptyDict == [k \in {} |-> ""]

\* {key: value}
Single(key, value) == [k \in {key} |-> value]

\* The context loader fetching the programs for an intent without a getter
_get_relevant_context_default_lookup(st, intent) ==
    LET Wrap(key, got) == IF got.raised THEN Raised ELSE Returned(Single(key, got.value))
    IN CASE intent = "programs" -> Wrap("programs", get_all_programs(st))
         [] intent = "admission" -> Wrap("admission", get_admission_info(st))
         [] intent = "campus" -> Wrap("campus", get_campus_info(st))
         [] intent = "student_life" -> Wrap("student_life", get_student_life_info(st))
         [] intent = "scholarships" -> Wrap("scholarships", get_scholarships(st))
         [] intent = "clubs" -> Wrap("clubs", get_all_clubs(st))
         [] intent = "events" -> Wrap("events", get_all_events(st))
         [] intent = "news" -> Wrap("news", get_latest_news(st, 5))
         [] intent = "contact" -> Wrap("contact", get_contact_info(st))
         [] intent = "university_info" -> Wrap("university_info", get_university_info(st))
         [] OTHER -> Wrap("programs", get_all_programs(st))

\* Returns the context dict, or raises what the DataManager getter raised.
_get_relevant_context(st, intent) ==
    LET Wrap(key, got) == IF got.raised THEN Raised ELSE Returned(Single(key, got.value))
    IN CASE intent = "programs" -> Wrap("programs", get_all_programs(st))
         [] intent = "admission" -> Wrap("admission", get_admission_info(st))
         [] intent = "campus" -> Wrap("campus", get_campus_info(st))
         [] intent = "student_life" -> Wrap("student_life", get_student_life_info(st))
         [] intent = "scholarships" -> Wrap("scholarships", get_scholarships(st))
         [] intent = "clubs" -> Wrap("clubs", get_all_clubs(st))
         [] intent = "events" -> Wrap("events", get_all_events(st))
         [] intent = "news" -> Wrap("news", get_latest_news(st, 5))
         [] intent = "contact" -> Wrap("contact", get_contact_info(st))
         [] intent = "university_info" -> Wrap("university_info", get_university_info(st))
         [] OTHER -> Returned(EmptyDict)

\* The intents whose context comes from a DataManager getter.
DataIntents == {"programs", "admission", "campus", "student_life", "scholarships",
                "clubs", "events", "news", "contact", "university_info"}

(***************************************************************************)
(* Reply templates                                                         *)
(***************************************************************************)
response_templates ==
    [greeting |-> <<
        "Hello! I'm UniGuideBot, your HMAWBI University guidance assistant. How can I help you with information about programs, admissions, or campus life?",
        "Welcome to HMAWBI University! I'm here to help you with questions about our programs, facilities, admissions, and student services. What would you like to know?",
        "Hi there! I'm UniGuideBot, ready to assist you with any questions about HMAWBI University. How can I help you today?">>,
     programs |-> <<
        "We offer various programs at HMAWBI University. Here are some popular ones:",
        "HMAWBI University provides excellent academic programs. Let me share information about our offerings:",
        "Our university has comprehensive programs designed for your career success:">>,
     admission |-> <<
        "For admission information at HMAWBI University:",
        "Here's what you need to know about applying to HMAWBI University:",
        "Admission to HMAWBI University involves several steps:">>,
     campus |-> <<
        "HMAWBI University campus offers excellent facilities:",
        "Our campus provides a comprehensive learning environment:",
        "Campus life at HMAWBI University includes:">>,
     student_life |-> <<
        "Student life at HMAWBI University is vibrant and engaging:",
        "Our university offers a rich student experience:",
        "Campus life includes many opportunities for growth and engagement:">>,
     scholarships |-> <<
        "HMAWBI University offers various scholarship opportunities:",
        "Scholarship programs available at our university:",
        "Financial aid and scholarship options:">>,
     contact |-> <<
        "Here's information about contacting departments at HMAWBI University:",
        "Need to reach a specific department? Here's how:",
        "Contact details for HMAWBI University departments:">>,
     news |-> <<
        "Here's what's happening at HMAWBI University:",
        "Latest news and updates from our university:",
        "Stay informed with our university news:">>,
     events |-> <<
        "Here are upcoming events at HMAWBI University:",
        "Our university hosts various events throughout the year:",
        "Check out these exciting events coming up:">>,
     clubs |-> <<
        "HMAWBI University has many active student clubs and organizations:",
        "Our student clubs offer great opportunities for involvement:",
        "Join one of our vibrant student organizations:">>,
     university_info |-> <<
        "Here's general information about HMAWBI University:",
        "Let me share some key information about our university:",
        "About HMAWBI University:">>,
     default |-> <<
        "I'm here to help with information about HMAWBI University. Could you please be more specific about what you'd like to know?",
        "I can assist you with questions about programs, admissions, campus facilities, scholarships, clubs, events, news, and general university information at HMAWBI University. What interests you?",
        "Thank you for your question. I can provide information about various aspects of HMAWBI University. Please let me know what specific area you'd like to learn about.">>]

\* The outcomes of random.choice over a list of three templates
Choices == 1..3

(***************************************************************************)
(* Record access in the handlers.  A record may lack a key, and may hold   *)
(* None under a key: the keys holding None are listed in its field         *)
(* "nulls".                                                                *)
(***************************************************************************)
Has(d, k) == k \in DOMAIN d

IsNull(d, k) == Has(d, "nulls") /\ k \in d.nulls

\* f"{d.get(k, default)}"
Fmt(d, k, default) ==
    IF ~Has(d, k) THEN default ELSE IF IsNull(d, k) THEN "None" ELSE d[k]

\* bool(d.get(k)) for a text field
Truthy(d, k) == Has(d, k) /\ ~IsNull(d, k) /\ d[k] # ""

\* The least i in 1..n with P(i), or 0
FirstIndex(P(_), n) ==
    IF \E i \in 1..n : P(i) THEN CHOOSE i \in 1..n : P(i) /\ \A j \in 1..(i - 1) : ~P(j)
    ELSE 0

\* "".join(f(x) for x in xs)
ConcatMap(f(_), xs) ==
    LET RECURSIVE From(_)
        From(i) == IF i > Len(xs) THEN "" ELSE f(xs[i]) \o From(i + 1)
    IN From(1)

UpperChar(c) ==
    IF \E i \in 1..26 : CharAt(LowerAlphabet, i) = c
    THEN CharAt(UpperAlphabet, CHOOSE i \in 1..26 : CharAt(LowerAlphabet, i) = c)
    ELSE c

IsLetter(c) == Contains(c, UpperAlphabet) \/ Contains(c, LowerAlphabet)

\* s.replace('_', ' ').title()
TitleCase(s) ==
    LET RECURSIVE From(_)
        From(i) ==
            IF i > Len(s) THEN ""
            ELSE LET c == IF CharAt(s, i) = "_" THEN " " ELSE CharAt(s, i)
                     cased_before == i > 1 /\ IsLetter(CharAt(s, i - 1))
                 IN (IF cased_before THEN LowerChar(c) ELSE UpperChar(c)) \o From(i + 1)
    IN From(1)

(***************************************************************************)
(* Response handlers: the branches of _generate_rule_based_response.       *)
(* Each takes the message, the context dict and the template index the     *)
(* random choice selected; it returns the reply text or raises.            *)
(***************************************************************************)
NotSpecified(x) == Lower(Strip(x)) = "not specified"

\* [x.strip() for x in xs if x and x.strip().lower() != 'not specified']
ValidItems(xs) ==
    LET Keep(x) == x # "" /\ ~NotSpecified(x)
    IN MapSeq(StripItem, FilterSeq(Keep, xs))

HandleGreeting(user_message, context_data, t) == Returned(response_templates.greeting[t])

HandlePrograms(user_message, context_data, t) ==
    LET response_prefix == response_templates.programs[t]
    IN IF Has(context_data, "programs") /\ Len(context_data.programs) > 0
       THEN LET message_lower == Lower(user_message)
                programs == context_data.programs
                found == FirstIndex(LAMBDA i : Contains(Lower(programs[i].key), message_lower),
                                    Len(programs))
            IN IF found > 0
               THEN LET specific_program == programs[found].key
                        prog_data == programs[found].value
                        valid_paths == ValidItems(Get(prog_data, "career_paths", <<>>))
                        salary_range == Get(prog_data, "salary_range",
                                            "Contact career services for details")
                        valid_specs == ValidItems(Get(prog_data, "specializations", <<>>))
                    IN Returned(
                        "Here's information about **" \o specific_program \o "**:\n\n"
                        \o "???? Duration: " \o Fmt(prog_data, "duration", "Not specified") \o "\n"
                        \o "??? Description: "
                        \o Fmt(prog_data, "description", "No description available") \o "\n"
                        \o (IF Len(valid_paths) > 0
                            THEN "???? Career Paths: " \o Join(", ", valid_paths) \o "\n"
                            ELSE "???? Career Paths: Contact career services for details\n")
                        \o "???? Entry Requirements: "
                        \o Fmt(prog_data, "entry_requirements", "Contact admissions for details")
                        \o "\n"
                        \o (IF salary_range # "" /\ ~NotSpecified(salary_range)
                            THEN "???? Salary Range: " \o salary_range \o "\n"
                            ELSE "???? Salary Range: Contact career services for details\n")
                        \o (IF Len(valid_specs) > 0
                            THEN "???? Specializations: " \o Join(", ", valid_specs) \o "\n"
                            ELSE "???? Specializations: Contact academic office for details\n")
                        \o "\nWould you like detailed information about any other programs?")
               ELSE LET Bullet(entry) == "??? " \o entry.key
                    IN Returned(
                        response_prefix \o "\n\n" \o Join("\n", MapSeq(Bullet, programs))
                        \o "\n\nWould you like detailed information about any specific program?")
       ELSE Returned(response_prefix
                \o "\n\nI couldn't retrieve program information at the moment. Please check back later.")

HandleAdmission(user_message, context_data, t) ==
    LET response == response_templates.admission[t]
    IN IF Has(context_data, "admission")
       THEN LET admission_info == context_data.admission
            IN Returned(
                response
                \o "\n\n???? Academic Year: " \o Fmt(admission_info, "academic_year", "Current Year")
                \o "\n???? Application Deadline: "
                \o Fmt(admission_info, "application_deadline", "Contact admissions")
                \o "\n??? Entrance Exam: " \o Fmt(admission_info, "entrance_exam_date", "TBA")
                \o "\n???? Application Fee: "
                \o Fmt(admission_info, "application_fee", "Contact for details")
                \o "\n???? Contact: "
                \o Fmt(admission_info, "contact_email", "admissions@hmawbi.edu.mm")
                \o "\n???? Phone: " \o Fmt(admission_info, "contact_phone", "Contact university")
                \o "\n???? Office Hours: "
                \o Fmt(admission_info, "office_hours", "Monday-Friday 9:00 AM - 5:00 PM")
                \o (IF Has(admission_info, "requirements")
                    THEN "\n???? Requirements: " \o Fmt(admission_info, "requirements", "")
                    ELSE "")
                \o (IF Has(admission_info, "documents_needed")
                    THEN "\n???? Documents Needed: " \o Fmt(admission_info, "documents_needed", "")
                    ELSE ""))
       ELSE Returned(response)

HandleCampus(user_message, context_data, t) ==
    LET response == response_templates.campus[t]
    IN IF Has(context_data, "campus")
       THEN LET campus_info == context_data.campus
                facilities == Get(campus_info, "facilities", [kind |-> "dict", entries |-> <<>>])
                Line(facility) == "  ??? " \o facility \o "\n"
                Group(entry) ==
                    IF Len(entry.value) > 0
                    THEN "????? " \o TitleCase(entry.key) \o ":\n"
                         \o ConcatMap(Line, Take(entry.value, 3)) \o "\n"
                    ELSE ""
            IN IF Len(facilities.entries) > 0
               THEN IF facilities.kind # "dict"
                    THEN Raised   \* a list has no .items()
                    ELSE Returned(response \o "\n\n" \o ConcatMap(Group, facilities.entries))
               ELSE Returned(response)
       ELSE Returned(response)

HandleStudentLife(user_message, context_data, t) ==
    LET response == response_templates.student_life[t]
    IN IF Has(context_data, "student_life")
       THEN LET student_info == context_data.student_life
                clubs == Get(student_info, "clubs_organizations", <<>>)
                events == Get(student_info, "upcoming_events", <<>>)
                ClubLine(club) == "??? " \o club \o "\n"
                EventLine(event) ==
                    "??? " \o Fmt(event, "title", "Event") \o ": " \o Fmt(event, "date", "TBA") \o "\n"
            IN Returned(
                response
                \o (IF Len(clubs) > 0
                    THEN "\n\n????? Student Clubs & Organizations:\n"
                         \o ConcatMap(ClubLine, Take(clubs, 5))
                    ELSE "\n\n????? Student Clubs & Organizations:\nWe have various clubs and organizations for students to join. Contact student services for more details.")
                \o (IF Len(events) > 0
                    THEN "\n???? Upcoming Events:\n" \o ConcatMap(EventLine, Take(events, 3))
                    ELSE "")
                \o "\n\nFor detailed information about clubs or events, please ask about specific items!")
       ELSE Returned(response)

\* for x in xs: if x[key].lower() in message_lower: found = x; break
\* x[key] raises KeyError when the key is absent, .lower() raises on None.
ScanByName(xs, key, message_lower) ==
    LET Bad(i) == ~Has(xs[i], key) \/ IsNull(xs[i], key)
        Match(i) == ~Bad(i) /\ Contains(Lower(xs[i][key]), message_lower)
        first_bad == FirstIndex(Bad, Len(xs))
        first_match == FirstIndex(Match, Len(xs))
    IN IF first_bad > 0 /\ (first_match = 0 \/ first_bad < first_match)
       THEN [raised |-> TRUE, found |-> 0]
       ELSE [raised |-> FALSE, found |-> first_match]

\* A handler that takes no word for a request for details
details_words_none == {}

details_words == {"eligibility", "criteria", "requirements", "apply", "application",
                  "deadline", "how to", "details", "about", "benefits"}

HandleScholarships(user_message, context_data, t) ==
    LET response == response_templates.scholarships[t]
        message_lower == Lower(user_message)
        asking_for_details == AnyIn(details_words, message_lower)
    IN IF Has(context_data, "scholarships") /\ Len(context_data.scholarships) > 0
       THEN LET scholarships_data == context_data.scholarships
                scan == ScanByName(scholarships_data, "name", message_lower)
                Detail(sch) ==
                    "   ??? Description: "
                    \o Fmt(sch, "description", "Available for eligible students") \o "\n"
                    \o "   ???? Eligibility Criteria: "
                    \o Fmt(sch, "criteria", "Contact financial aid office") \o "\n"
                    \o "   ???? Benefit: " \o Fmt(sch, "benefit", "Contact for details")
                    \o " (" \o Fmt(sch, "benefit_type", "Financial assistance") \o ")\n"
                    \o "   ???? Application Deadline: "
                    \o Fmt(sch, "deadline", "No deadline specified") \o "\n\n"
                Full(sch) == "???? **" \o Fmt(sch, "name", "Scholarship") \o "**\n" \o Detail(sch)
                Brief(sch) ==
                    "??? " \o Fmt(sch, "name", "Scholarship") \o ": "
                    \o Fmt(sch, "benefit", "Financial assistance available") \o "\n"
            IN IF scan.raised THEN Raised
               ELSE IF scan.found > 0
               THEN LET sch == scholarships_data[scan.found]
                    IN Returned(
                        "Here's detailed information about **" \o sch.name \o "**:\n\n"
                        \o "??? Description: "
                        \o Fmt(sch, "description", "Available for eligible students") \o "\n"
                        \o "???? Eligibility Criteria: "
                        \o Fmt(sch, "criteria", "Contact financial aid office") \o "\n"
                        \o "???? Benefit: " \o Fmt(sch, "benefit", "Contact for details")
                        \o " (" \o Fmt(sch, "benefit_type", "Financial assistance") \o ")\n"
                        \o "???? Application Deadline: "
                        \o Fmt(sch, "deadline", "No deadline specified") \o "\n"
                        \o (IF Truthy(sch, "application_process")
                            THEN "???? Application Process: " \o sch.application_process \o "\n"
                            ELSE "")
                        \o "\n???? For applications and more information, please contact our financial aid office!")
               ELSE IF asking_for_details
               THEN Returned(
                        "Here's detailed information about our scholarship programs:\n\n"
                        \o ConcatMap(Full, Take(scholarships_data, 3))
                        \o "???? For applications and more information, please contact our financial aid office!")
               ELSE Returned(
                        response \o "\n\n" \o ConcatMap(Brief, Take(scholarships_data, 5))
                        \o "\n???? Ask me about a specific scholarship or 'scholarship requirements' for detailed information!")
       ELSE Returned(response
                \o "\n\nSorry, I couldn't retrieve scholarship information at the moment. Please check back later.")

HandleClubs(user_message, context_data, t) ==
    LET response == response_templates.clubs[t]
        message_lower == Lower(user_message)
    IN IF Has(context_data, "clubs") /\ Len(context_data.clubs) > 0
       THEN LET clubs_data == context_data.clubs
                scan == ScanByName(clubs_data, "name", message_lower)
                Line(club) ==
                    "??? " \o Fmt(club, "name", "Club")
                    \o " (" \o Fmt(club, "club_type", "Student Club") \o ")\n"
            IN IF scan.raised THEN Raised
               ELSE IF scan.found > 0
               THEN LET club == clubs_data[scan.found]
                    IN Returned(
                        "Here's information about **" \o club.name \o "**:\n\n"
                        \o "??? Description: " \o Fmt(club, "description", "Student organization") \o "\n"
                        \o "????? Type: " \o Fmt(club, "club_type", "Student Club") \o "\n"
                        \o "????????? Advisor: " \o Fmt(club, "advisor", "TBA") \o "\n"
                        \o "???? Meeting Schedule: " \o Fmt(club, "meeting_schedule", "TBA") \o "\n"
                        \o "???? Membership Requirements: "
                        \o Fmt(club, "membership_requirements", "Open to all students") \o "\n"
                        \o "???? Contact: " \o Fmt(club, "contact_email", "Contact student services") \o "\n"
                        \o "???? Established: " \o Fmt(club, "established_date", "N/A") \o "\n"
                        \o "\n???? Contact the club directly or student services for more information about joining!")
               ELSE Returned(
                        response \o "\n\n" \o ConcatMap(Line, Take(clubs_data, 8))
                        \o "\n???? Ask me about a specific club for detailed information including meeting schedules and membership requirements!")
       ELSE Returned(response
                \o "\n\nSorry, I couldn't retrieve club information at the moment. Please check back later.")

HandleEvents(user_message, context_data, t) ==
    LET response == response_templates.events[t]
        message_lower == Lower(user_message)
    IN IF Has(context_data, "events") /\ Len(context_data.events) > 0
       THEN LET events_data == context_data.events
                scan == ScanByName(events_data, "title", message_lower)
                registration(event) ==
                    Has(event, "registration_required") /\ event.registration_required
                Line(event) ==
                    "??? **" \o Fmt(event, "title", "Event")
                    \o "** (" \o Fmt(event, "event_type", "Event") \o ")\n"
                    \o "  ???? " \o Fmt(event, "start_date", "TBA")
                    \o " at " \o Fmt(event, "location", "TBA") \o "\n\n"
            IN IF scan.raised THEN Raised
               ELSE IF scan.found > 0
               THEN LET event == events_data[scan.found]
                    IN Returned(
                        "Here's information about **" \o event.title \o "**:\n\n"
                        \o "??? Description: " \o Fmt(event, "description", "University event") \o "\n"
                        \o "????? Type: " \o Fmt(event, "event_type", "Event") \o "\n"
                        \o "???? Start Date: " \o Fmt(event, "start_date", "TBA") \o "\n"
                        \o "???? End Date: " \o Fmt(event, "end_date", "TBA") \o "\n"
                        \o "??? Location: " \o Fmt(event, "location", "TBA") \o "\n"
                        \o "???? Organizer: " \o Fmt(event, "organizer", "University") \o "\n"
                        \o "???? Registration Required: "
                        \o (IF registration(event) THEN "Yes" ELSE "No") \o "\n"
                        \o (IF registration(event)
                            THEN "???? Registration Deadline: "
                                 \o Fmt(event, "registration_deadline", "N/A") \o "\n"
                            ELSE "")
                        \o "???? Contact: " \o Fmt(event, "contact_info", "Contact event organizer") \o "\n"
                        \o "???? Max Participants: " \o Fmt(event, "max_participants", "No limit") \o "\n"
                        \o "\nCheck the university website or contact the organizer for the latest updates.")
               ELSE Returned(
                        response \o "\n\n" \o ConcatMap(Line, Take(events_data, 5))
                        \o "???? Ask me about a specific event for detailed information including registration details!")
       ELSE Returned(response
                \o "\n\nSorry, I couldn't retrieve event information at the moment. Please check back later.")

CONTACT_UNAVAILABLE ==
    "I couldn't retrieve any department contact information at the moment. Please check back later or contact the main university line."

HandleContact(user_message, context_data, t) ==
    LET response == response_templates.contact[t]
        message_lower == Lower(user_message)
    IN IF Has(context_data, "contact") /\ Len(context_data.contact) > 0
       THEN LET contact == context_data.contact
                Match(i) ==
                    \/ Contains(Lower(contact[i].key), message_lower)
                    \/ Contains(RemoveSpaces(Lower(contact[i].key)), RemoveSpaces(message_lower))
                found == FirstIndex(Match, Len(contact))
                departments == Take(contact, 5)
                Bullet(entry) == "??? " \o entry.key
            IN IF found > 0
               THEN LET specific_department == contact[found].key
                        dept_data == contact[found].value
                    IN IF dept_data.kind # "dict" THEN Raised
                       ELSE Returned(
                            "Here's the contact information for **" \o specific_department \o "**:\n\n"
                            \o "???? **Phone:** " \o Fmt(dept_data, "phone", "Not specified") \o "\n"
                            \o "???? **Email:** " \o Fmt(dept_data, "email", "Not specified") \o "\n"
                            \o "????????? **Teacher:** " \o Fmt(dept_data, "teacher", "Not specified") \o "\n"
                            \o (IF Truthy(dept_data, "location")
                                THEN "??? **Location:** " \o dept_data.location \o "\n"
                                ELSE "")
                            \o "???? **Office Hours:** " \o Fmt(dept_data, "hours", "Not specified") \o "\n"
                            \o "??? **Description:** " \o Fmt(dept_data, "description", "Not specified") \o "\n"
                            \o "\nWould you like to know about other departments?")
               ELSE Returned(
                        response \o "\n\n" \o Join("\n", MapSeq(Bullet, departments))
                        \o "\n\nWould you like detailed contact information for any specific department?")
       ELSE Returned(CONTACT_UNAVAILABLE)

NEWS_TROUBLE ==
    "I'm having trouble accessing the news right now. Please try again later or contact our information desk."

\* The body of the try block of the news branch
NewsBody(user_message, context_data, t) ==
    LET response == response_templates.news[t] \o "\n\n"
        news_items == IF Has(context_data, "news") THEN context_data.news ELSE <<>>
        message_lower == Lower(user_message)
        \* news_item.get('title', '').lower(): '' when absent, raises on None
        Bad(i) == IsNull(news_items[i], "title")
        Match(i) ==
            /\ ~Bad(i)
            /\ Contains(IF Has(news_items[i], "title") THEN Lower(news_items[i].title) ELSE "",
                        message_lower)
        first_bad == FirstIndex(Bad, Len(news_items))
        first_match == FirstIndex(Match, Len(news_items))
        shown == Take(news_items, 5)
        Short(content) == IF Len(content) > 100 THEN TakeStr(content, 97) \o "..." ELSE content
        Summary(i) ==
            ToStr(i) \o ". **" \o Fmt(shown[i], "title", "University News")
            \o "** (" \o Fmt(shown[i], "date", "N/A") \o ")\n"
            \o "   " \o Short(Fmt(shown[i], "content", "No description available.")) \o "\n\n"
        RECURSIVE Summaries(_)
        Summaries(i) == IF i > Len(shown) THEN "" ELSE Summary(i) \o Summaries(i + 1)
    IN IF Len(news_items) = 0
       THEN Returned(response
                \o "???? Stay tuned for exciting university updates and announcements!\n")
       ELSE IF first_bad > 0 /\ (first_match = 0 \/ first_bad < first_match) THEN Raised
       ELSE IF first_match > 0
       THEN LET specific_news == news_items[first_match]
            IN Returned(
                "Here's the full story about **"
                \o Fmt(specific_news, "title", "University News") \o "**:\n\n"
                \o "???? **Date:** " \o Fmt(specific_news, "date", "N/A") \o "\n"
                \o "????? **Category:** " \o Fmt(specific_news, "category", "General") \o "\n"
                \o (IF Has(specific_news, "tags") /\ Len(specific_news.tags) > 0
                    THEN "????? **Tags:** " \o Join(", ", specific_news.tags) \o "\n"
                    ELSE "")
                \o "\n???? **Content:**\n"
                \o Fmt(specific_news, "content", "No content available.") \o "\n")
       \* len(content) raises on None
       ELSE IF \E i \in 1..Len(shown) : IsNull(shown[i], "content") THEN Raised
       ELSE Returned(
                response \o "**Latest Updates:**\n" \o Summaries(1)
                \o "???? Ask me about a specific news title for the full story!")

\* The news branch without its own try/except
HandleNews_propagating(user_message, context_data, t) ==
    NewsBody(user_message, context_data, t)

\* try: ... except Exception: return the trouble text
HandleNews(user_message, context_data, t) ==
    LET body == NewsBody(user_message, context_data, t)
    IN IF body.raised THEN Returned(NEWS_TROUBLE) ELSE body

HandleUniversityInfo(user_message, context_data, t) ==
    LET response == response_templates.university_info[t]
        message_lower == Lower(user_message)
    IN IF Has(context_data, "university_info") /\ Len(context_data.university_info) > 0
       THEN LET university_info_data == context_data.university_info
                Match(i) == Contains(Lower(university_info_data[i].key), message_lower)
                found == FirstIndex(Match, Len(university_info_data))
                Snippet(content) ==
                    IF Len(content) > 150 THEN TakeStr(content, 147) \o "..." ELSE content
                Item(entry) ==
                    "???? **" \o Fmt(entry.value, "title", entry.key) \o "**:\n"
                    \o "   " \o Snippet(Fmt(entry.value, "content", "No details available.")) \o "\n\n"
            IN IF found > 0
               THEN LET specific_info_type == university_info_data[found].key
                        info_item == university_info_data[found].value
                    IN IF info_item.kind # "dict" THEN Raised
                       ELSE Returned(
                            "Here is the information about **" \o specific_info_type
                            \o "** at HMAWBI University:\n\n"
                            \o "???? **" \o Fmt(info_item, "title", specific_info_type) \o "**\n"
                            \o "   " \o Fmt(info_item, "content", "No content available.") \o "\n"
                            \o (IF Truthy(info_item, "description")
                                THEN "   " \o info_item.description \o "\n"
                                ELSE ""))
               ELSE IF \E i \in 1..Len(university_info_data) :
                            university_info_data[i].value.kind # "dict"
               THEN Raised
               ELSE Returned(
                        response \o "\n\n" \o ConcatMap(Item, university_info_data)
                        \o "???? You can ask for specific details like 'university leadership', 'university transportation', or 'university history'.")
       ELSE Returned(response
                \o "\n\nSorry, I couldn't retrieve university information at the moment. Please check back later.")

HandleDefault(user_message, context_data, t) == Returned(response_templates.default[t])

\* t is the outcome of random.choice: the index of the template picked.
_generate_rule_based_response(user_message, intent, context_data, t) ==
    CASE intent = "greeting" -> HandleGreeting(user_message, context_data, t)
      [] intent = "programs" -> HandlePrograms(user_message, context_data, t)
      [] intent = "admission" -> HandleAdmission(user_message, context_data, t)
      [] intent = "campus" -> HandleCampus(user_message, context_data, t)
      [] intent = "student_life" -> HandleStudentLife(user_message, context_data, t)
      [] intent = "scholarships" -> HandleScholarships(user_message, context_data, t)
      [] intent = "clubs" -> HandleClubs(user_message, context_data, t)
      [] intent = "events" -> HandleEvents(user_message, context_data, t)
      [] intent = "contact" -> HandleContact(user_message, context_data, t)
      [] intent = "news" -> HandleNews(user_message, context_data, t)
      [] intent = "university_info" -> HandleUniversityInfo(user_message, context_data, t)
      [] OTHER -> HandleDefault(user_message, context_data, t)

(***************************************************************************)
(* The handler classes of chatbot/handlers: AcademicHandler,               *)
(* ActivityHandler and InfoHandler.  Each class carries a copy of the      *)
(* templates of its categories, the same texts as response_templates.      *)
(* A method takes the message (where it has that parameter), the context   *)
(* dict and the template index the random choice selected.                 *)
(***************************************************************************)
handle_programs(user_message, context_data, t) ==
    LET response_prefix == response_templates.programs[t]
    IN IF Has(context_data, "programs") /\ Len(context_data.programs) > 0
       THEN LET message_lower == Lower(user_message)
                programs == context_data.programs
                found == FirstIndex(LAMBDA i : Contains(Lower(programs[i].key), message_lower),
                                    Len(programs))
            IN IF found > 0
               THEN LET specific_program == programs[found].key
                        prog_data == programs[found].value
                        valid_paths == ValidItems(Get(prog_data, "career_paths", <<>>))
                        salary_range == Get(prog_data, "salary_range",
                                            "Contact career services for details")
                        valid_specs == ValidItems(Get(prog_data, "specializations", <<>>))
                    IN Returned(
                        "Here's information about **" \o specific_program \o "**:\n\n"
                        \o "? Duration: " \o Fmt(prog_data, "duration", "Not specified") \o "\n"
                        \o "? Description: "
                        \o Fmt(prog_data, "description", "No description available") \o "\n"
                        \o (IF Len(valid_paths) > 0
                            THEN "? Career Paths: " \o Join(", ", valid_paths) \o "\n"
                            ELSE "? Career Paths: Contact career services for details\n")
                        \o "? Entry Requirements: "
                        \o Fmt(prog_data, "entry_requirements", "Contact admissions for details")
                        \o "\n"
                        \o (IF salary_range # "" /\ ~NotSpecified(salary_range)
                            THEN "? Salary Range: " \o salary_range \o "\n"
                            ELSE "? Salary Range: Contact career services for details\n")
                        \o (IF Len(valid_specs) > 0
                            THEN "? Specializations: " \o Join(", ", valid_specs) \o "\n"
                            ELSE "? Specializations: Contact academic office for details\n")
                        \o "\nWould you like detailed information about any other programs?")
               ELSE LET Bullet(entry) == "? " \o entry.key
                    IN Returned(
                        response_prefix \o "\n\n" \o Join("\n", MapSeq(Bullet, programs))
                        \o "\n\nWould you like detailed information about any specific program?")
       ELSE Returned(response_prefix
                \o "\n\nI couldn't retrieve program information at the moment. Please check back later.")

handle_campus(context_data, t) ==
    LET response == response_templates.campus[t]
    IN IF Has(context_data, "campus")
       THEN LET campus_info == context_data.campus
                facilities == Get(campus_info, "facilities", [kind |-> "dict", entries |-> <<>>])
                Line(facility) == "  ? " \o facility \o "\n"
                Group(entry) ==
                    IF Len(entry.value) > 0
                    THEN "?? " \o TitleCase(entry.key) \o ":\n"
                         \o ConcatMap(Line, Take(entry.value, 3)) \o "\n"
                    ELSE ""
                Extra(label, key) ==
                    IF Truthy(campus_info, key) THEN label \o campus_info[key] \o "\n" ELSE ""
            IN IF Len(facilities.entries) > 0 /\ facilities.kind # "dict"
               THEN Raised   \* a list has no .items()
               ELSE Returned(
                        response
                        \o (IF Len(facilities.entries) > 0
                            THEN "\n\n" \o ConcatMap(Group, facilities.entries)
                            ELSE "")
                        \o Extra("? Campus Size: ", "campus_size")
                        \o (IF Truthy(campus_info, "wifi_available") THEN "? WiFi: Available\n" ELSE "")
                        \o Extra("?? Parking: ", "parking")
                        \o Extra("? Security: ", "security")
                        \o "\n? Would you like more details about any specific facility?")
       ELSE Returned(response)

handle_student_life(context_data, t) ==
    LET response == response_templates.student_life[t]
    IN IF Has(context_data, "student_life")
       THEN LET student_info == context_data.student_life
                clubs == Get(student_info, "clubs_organizations", <<>>)
                services == Get(student_info, "student_services", <<>>)
                events == Get(student_info, "upcoming_events", <<>>)
                Bullet(item) == "? " \o item \o "\n"
                EventLine(event) ==
                    "? " \o Fmt(event, "title", "Event") \o ": " \o Fmt(event, "date", "TBA") \o "\n"
                Extra(label, key) ==
                    IF Truthy(student_info, key) THEN label \o student_info[key] \o "\n" ELSE ""
            IN Returned(
                response
                \o (IF Len(clubs) > 0
                    THEN "\n\n?? Student Clubs & Organizations:\n"
                         \o ConcatMap(Bullet, Take(clubs, 5))
                    ELSE "\n\n?? Student Clubs & Organizations:\nWe have various clubs and organizations for students to join. Contact student services for more details.")
                \o (IF Len(services) > 0
                    THEN "\n? Student Services:\n" \o ConcatMap(Bullet, Take(services, 5))
                    ELSE "")
                \o (IF Len(events) > 0
                    THEN "\n? Upcoming Events:\n" \o ConcatMap(EventLine, Take(events, 3))
                    ELSE "")
                \o Extra("\n? Counseling Services: ", "counseling_services")
                \o Extra("? Health Services: ", "health_services")
                \o Extra("? Career Services: ", "career_services")
                \o "\n\n? For detailed information about clubs, events, or services, please ask about specific items!")
       ELSE Returned(response)

handle_admission(context_data, t) ==
    LET response == response_templates.admission[t]
    IN IF Has(context_data, "admission")
       THEN LET admission_info == context_data.admission
            IN Returned(
                response
                \o "\n\n? Academic Year: " \o Fmt(admission_info, "academic_year", "Current Year")
                \o "\n? Application Deadline: "
                \o Fmt(admission_info, "application_deadline", "Contact admissions")
                \o "\n? Entrance Exam: " \o Fmt(admission_info, "entrance_exam_date", "TBA")
                \o "\n? Application Fee: "
                \o Fmt(admission_info, "application_fee", "Contact for details")
                \o "\n? Contact: "
                \o Fmt(admission_info, "contact_email", "admissions@hmawbi.edu.mm")
                \o "\n? Phone: " \o Fmt(admission_info, "contact_phone", "Contact university")
                \o "\n? Office Hours: "
                \o Fmt(admission_info, "office_hours", "Monday-Friday 9:00 AM - 5:00 PM")
                \o (IF Has(admission_info, "requirements")
                    THEN "\n? Requirements: " \o Fmt(admission_info, "requirements", "")
                    ELSE "")
                \o (IF Has(admission_info, "documents_needed")
                    THEN "\n? Documents Needed: " \o Fmt(admission_info, "documents_needed", "")
                    ELSE ""))
       ELSE Returned(response)

handle_contact(user_message, context_data, t) ==
    LET response == response_templates.contact[t]
        message_lower == Lower(user_message)
        \* s.startswith(prefix)
        StartsWith(s, prefix) == Len(s) >= Len(prefix) /\ SubSeq(s, 1, Len(prefix)) = prefix
        \* s.replace(old, '')
        RECURSIVE Remove(_, _)
        Remove(old, s) ==
            IF Len(s) < Len(old) THEN s
            ELSE IF SubSeq(s, 1, Len(old)) = old
            THEN Remove(old, SubSeq(s, Len(old) + 1, Len(s)))
            ELSE SubSeq(s, 1, 1) \o Remove(old, SubSeq(s, 2, Len(s)))
    IN IF Has(context_data, "contact") /\ Len(context_data.contact) > 0
       THEN LET contact == context_data.contact
                Match(i) ==
                    LET dept_lower == Lower(contact[i].key)
                    IN \/ Contains(dept_lower, message_lower)
                       \/ IF StartsWith(dept_lower, "department of")
                          THEN LET subject == Strip(Remove("department of", dept_lower))
                               IN \/ Contains(subject \o " department", message_lower)
                                  \/ Contains(subject \o "department", message_lower)
                                  \/ Contains(subject, message_lower)
                          ELSE IF Contains("office", dept_lower)
                          THEN Contains(Strip(Remove("office", dept_lower)), message_lower)
                          ELSE Contains(RemoveSpaces(dept_lower), RemoveSpaces(message_lower))
                found == FirstIndex(Match, Len(contact))
                Bullet(entry) == "? " \o entry.key
            IN IF found > 0
               THEN LET specific_department == contact[found].key
                        dept_data == contact[found].value
                    IN IF dept_data.kind # "dict" THEN Raised   \* a str has no .get()
                       ELSE Returned(
                            "Here's the contact information for **" \o specific_department \o "**:\n\n"
                            \o "? **Phone:** " \o Fmt(dept_data, "phone", "Not specified") \o "\n"
                            \o "? **Email:** " \o Fmt(dept_data, "email", "Not specified") \o "\n"
                            \o "??? **Teacher:** " \o Fmt(dept_data, "teacher", "Not specified") \o "\n"
                            \o (IF Truthy(dept_data, "location")
                                THEN "? **Location:** " \o dept_data.location \o "\n"
                                ELSE "")
                            \o "? **Office Hours:** " \o Fmt(dept_data, "hours", "Not specified") \o "\n"
                            \o "? **Description:** " \o Fmt(dept_data, "description", "Not specified") \o "\n"
                            \o "\nWould you like to know about other departments?")
               ELSE Returned(
                        response \o "\n\n" \o Join("\n", MapSeq(Bullet, contact))
                        \o "\n\nWould you like detailed contact information for any specific department?")
       ELSE Returned(CONTACT_UNAVAILABLE)

handle_university_info(user_message, context_data, t) ==
    LET message_lower == Lower(user_message)
        \* content.split('\n')
        RECURSIVE Lines(_)
        Lines(s) ==
            IF ~Contains("\n", s) THEN <<s>>
            ELSE LET i == CHOOSE k \in 1..Len(s) :
                             /\ CharAt(s, k) = "\n"
                             /\ \A j \in 1..(k - 1) : CharAt(s, j) # "\n"
                 IN <<SubSeq(s, 1, i - 1)>> \o Lines(SubSeq(s, i + 1, Len(s)))
    IN IF Has(context_data, "university_info") /\ Len(context_data.university_info) > 0
       THEN LET university_info_data == context_data.university_info
                n == Len(university_info_data)
                Key(i) == university_info_data[i].key
                Item(i) == university_info_data[i].value
                \* item.get('title', '').lower() needs a dict holding a str
                NoTitle(i) == Item(i).kind # "dict" \/ IsNull(Item(i), "title")
                Title(i) == Lower(Fmt(Item(i), "title", ""))
                NoContent(i) == Item(i).kind # "dict" \/ IsNull(Item(i), "content")
                Content(i) == Fmt(Item(i), "content", "")
                Description(info_item) ==
                    IF Truthy(info_item, "description")
                       /\ info_item.description # "Not specified"
                    THEN "\n? " \o info_item.description \o "\n"
                    ELSE ""
                \* The two leadership queries differ in the titles they accept,
                \* the lines they accept and the words of the reply.
                Leader(TitleOk(_), ContentOk(_), LineOk(_), title, office, missing) ==
                    LET byTitle == FirstIndex(LAMBDA i : NoTitle(i) \/ TitleOk(Title(i)), n)
                        Usable(i) ==
                            /\ Contains("leadership", Lower(Key(i)))
                            /\ \/ NoContent(i)
                               \/ /\ ContentOk(Lower(Content(i)))
                                  /\ \E j \in 1..Len(Lines(Content(i))) :
                                        LineOk(Lower(Lines(Content(i))[j]))
                        byContent == FirstIndex(Usable, n)
                    IN IF byTitle > 0
                       THEN IF NoTitle(byTitle) THEN Raised
                            ELSE LET info_item == Item(byTitle)
                                 IN Returned(
                                     "? **" \o Fmt(info_item, "title", title) \o "**\n"
                                     \o Fmt(info_item, "content",
                                            "Contact administration for current " \o office
                                            \o " information.") \o "\n"
                                     \o Description(info_item)
                                     \o "\n? Need to contact the " \o office
                                     \o "'s office? Ask for contact information!")
                       ELSE IF byContent > 0
                       THEN IF NoContent(byContent) THEN Raised
                            ELSE LET lines == Lines(Content(byContent))
                                     at == FirstIndex(LAMBDA j : LineOk(Lower(lines[j])),
                                                      Len(lines))
                                 IN Returned(
                                     "? **" \o title \o "**\n" \o Strip(lines[at]) \o "\n"
                                     \o "\n? Need to contact the " \o office
                                     \o "'s office? Ask for contact information!")
                       ELSE Returned(
                                "I couldn't find specific information for the " \o office
                                \o ". You might find details in the general 'University Leadership' information. Would you like me to show that?")
                KeyWith(words) == FirstIndex(LAMBDA i : AnyIn(words, Lower(Key(i))), n)
                Selected(i) ==
                    IF i > 0
                    THEN LET specific_info_type == Key(i)
                             info_item == Item(i)
                         IN IF info_item.kind # "dict" THEN Raised
                            ELSE Returned(
                                "Here is the information about **" \o specific_info_type
                                \o "** at HMAWBI University:\n\n"
                                \o "? **" \o Fmt(info_item, "title", specific_info_type) \o "**\n"
                                \o Fmt(info_item, "content", "No content available.") \o "\n"
                                \o Description(info_item)
                                \o (IF Contains("location", Lower(specific_info_type))
                                    THEN "\n? Need directions or transportation details? Just ask!"
                                    ELSE IF Contains("leadership", Lower(specific_info_type))
                                    THEN "\n? Need to contact university administration? Ask for contact information!"
                                    ELSE ""))
                    ELSE IF AnyIn({"university information", "about university",
                                    "tell me about university", "general information"},
                                  message_lower)
                    THEN IF \E j \in 1..n : NoContent(j) THEN Raised
                         ELSE LET Snippet(content) ==
                                      IF Len(content) > 100 THEN TakeStr(content, 97) \o "..."
                                      ELSE content
                                  Overview(entry) ==
                                      "? **" \o Fmt(entry.value, "title", entry.key) \o "**:\n"
                                      \o "   "
                                      \o Snippet(Fmt(entry.value, "content", "No details available."))
                                      \o "\n\n"
                              IN Returned(
                                  response_templates.university_info[t] \o "\n\n"
                                  \o ConcatMap(Overview, university_info_data)
                                  \o "? You can ask for specific details like 'Who is the rector?', 'university location', or 'university history'.")
                    ELSE LET Bullet(entry) == "? " \o entry.key \o "\n"
                         IN Returned(
                             "I can help you with information about HMAWBI University. Here's what I can tell you about:\n\n"
                             \o ConcatMap(Bullet, university_info_data)
                             \o "\n? Try asking: 'Who is the rector?', 'Who is the pro-rector?', or 'Tell me about university location'")
            IN IF AnyIn({"who is rector", "rector name", "current rector", "rector is"},
                        message_lower)
               THEN Leader(LAMBDA title : Contains("rector", title) /\ ~Contains("pro-rector", title),
                           LAMBDA content : Contains("rector:", content)
                                            /\ ~Contains("pro-rector:", content),
                           LAMBDA line : Contains("rector:", line) /\ ~Contains("pro-rector", line),
                           "University Rector", "rector", "rector")
               ELSE IF AnyIn({"who is pro-rector", "pro-rector name", "current pro-rector",
                               "pro rector name"}, message_lower)
               THEN Leader(LAMBDA title : Contains("pro-rector", title),
                           LAMBDA content : Contains("pro-rector:", content),
                           LAMBDA line : Contains("pro-rector:", line),
                           "University Pro-Rector", "pro-rector", "pro-rector")
               ELSE IF AnyIn({"leadership", "administration", "officials", "management team"},
                             message_lower)
               THEN Selected(KeyWith({"leadership"}))
               ELSE IF AnyIn({"location", "address", "transportation", "bus", "directions",
                               "how to get", "where is"}, message_lower)
               THEN Selected(KeyWith({"location", "transportation"}))
               ELSE IF AnyIn({"history", "background", "founded", "established"},
                             message_lower)
               THEN Selected(KeyWith({"history"}))
               ELSE Selected(FirstIndex(LAMBDA i : Contains(Lower(Key(i)), message_lower), n))
       ELSE Returned(response_templates.university_info[t]
                \o "\n\nSorry, I couldn't retrieve university information at the moment. Please check back later.")

handle_scholarships(user_message, context_data, t) ==
    LET response == response_templates.scholarships[t]
        message_lower == Lower(user_message)
        asking_for_details == AnyIn(details_words, message_lower)
    IN IF Has(context_data, "scholarships") /\ Len(context_data.scholarships) > 0
       THEN LET scholarships_data == context_data.scholarships
                \* isinstance(scholarship.get('name'), str) and name.lower() in message_lower
                Match(i) ==
                    /\ Has(scholarships_data[i], "name")
                    /\ ~IsNull(scholarships_data[i], "name")
                    /\ Contains(Lower(scholarships_data[i].name), message_lower)
                found == FirstIndex(Match, Len(scholarships_data))
                Detail(sch, indent) ==
                    indent \o "? Description: "
                    \o Fmt(sch, "description", "Available for eligible students") \o "\n"
                    \o indent \o "? Eligibility Criteria: "
                    \o Fmt(sch, "criteria", "Contact financial aid office") \o "\n"
                    \o indent \o "? Benefit: " \o Fmt(sch, "benefit", "Contact for details")
                    \o " (" \o Fmt(sch, "benefit_type", "Financial assistance") \o ")\n"
                    \o indent \o "? Application Deadline: "
                    \o Fmt(sch, "deadline", "No deadline specified") \o "\n"
                Full(sch) ==
                    "? **" \o Fmt(sch, "name", "Scholarship") \o "**\n" \o Detail(sch, "   ") \o "\n"
                Brief(sch) ==
                    "? " \o Fmt(sch, "name", "Scholarship") \o ": "
                    \o Fmt(sch, "benefit", "Financial assistance available") \o "\n"
            IN IF found > 0
               THEN LET specific_scholarship == scholarships_data[found]
                    IN Returned(
                        "Here's detailed information about **"
                        \o Fmt(specific_scholarship, "name", "Scholarship") \o "**:\n\n"
                        \o Detail(specific_scholarship, "")
                        \o (IF Truthy(specific_scholarship, "application_process")
                            THEN "? Application Process: "
                                 \o specific_scholarship.application_process \o "\n"
                            ELSE "")
                        \o "\n? For applications and more information, please contact our financial aid office!")
               ELSE IF asking_for_details
               THEN Returned(
                        "Here's detailed information about our scholarship programs:\n\n"
                        \o ConcatMap(Full, Take(scholarships_data, 3))
                        \o "? For applications and more information, please contact our financial aid office!")
               ELSE Returned(
                        response \o "\n\n" \o ConcatMap(Brief, Take(scholarships_data, 5))
                        \o "\n? Ask me about a specific scholarship or 'scholarship requirements' for detailed information!")
       ELSE Returned(response
                \o "\n\nSorry, I couldn't retrieve scholarship information at the moment. Please check back later.")

\* A handler that knows no general-listing phrase
general_club_patterns_none == {}

general_club_patterns ==
    {"which club do we have", "what club do we have", "which clubs do we have",
     "what clubs do we have", "which club are there", "what club are there",
     "which clubs are there", "what clubs are there", "list of club",
     "list of clubs", "all club", "all clubs", "available club",
     "available clubs", "what clubs", "which clubs", "show me clubs",
     "tell me about clubs", "clubs available", "club list"}

handle_clubs(user_message, context_data, t) ==
    LET message_lower == Lower(user_message)
        \* s.split(): the runs of characters between white space
        RECURSIVE Words(_, _)
        Words(s, word) ==
            IF Len(s) = 0 THEN (IF word = "" THEN <<>> ELSE <<word>>)
            ELSE IF IsSpace(CharAt(s, 1))
            THEN (IF word = "" THEN <<>> ELSE <<word>>) \o Words(Tail(s), "")
            ELSE Words(Tail(s), word \o SubSeq(s, 1, 1))
        WordSet(s) == {Words(s, "")[i] : i \in 1..Len(Words(s, ""))}
    IN IF Has(context_data, "clubs") /\ Len(context_data.clubs) > 0
       THEN LET clubs_data == context_data.clubs
                n == Len(clubs_data)
                \* club.get('name', '').lower() raises on None
                NoName(i) == IsNull(clubs_data[i], "name")
                Name(i) == Lower(Fmt(clubs_data[i], "name", ""))
                is_general_query == AnyIn(general_club_patterns, message_lower)
                membership_phrase ==
                    AnyIn({"membership requirements", "membership requirement",
                           "how to join clubs", "club membership", "join clubs"}, message_lower)
                named == FirstIndex(LAMBDA i : NoName(i) \/ Contains(Name(i), message_lower), n)
                asking_for_general_membership == membership_phrase /\ named = 0
                asking_for_membership ==
                    AnyIn({"membership requirements", "membership requirement", "how to join",
                           "join", "membership", "requirements", "subscribe", "subscription"},
                          message_lower)
                Chosen(i) ==
                    /\ Name(i) # ""
                    /\ Contains(Name(i), message_lower)
                    /\ WordSet(Name(i)) \subseteq WordSet(message_lower)
                found == FirstIndex(LAMBDA i : NoName(i) \/ Chosen(i), n)
                Listed(club) ==
                    "? **" \o Fmt(club, "name", "Club") \o "**\n"
                    \o "   ? Type: " \o Fmt(club, "club_type", "Student Club") \o "\n"
                    \o "   ??? Advisor: " \o Fmt(club, "advisor", "TBA") \o "\n\n"
                Fee(club, label) ==
                    IF Truthy(club, "membership_fee")
                    THEN label \o club.membership_fee \o "\n" ELSE ""
                Membership(club) ==
                    "? **" \o Fmt(club, "name", "Club") \o "** ("
                    \o Fmt(club, "club_type", "Student Club") \o ")\n"
                    \o "   ? Requirements: "
                    \o Fmt(club, "membership_requirements", "Open to all students") \o "\n"
                    \o Fee(club, "   ? Fee: ")
                    \o "   ? Contact: "
                    \o Fmt(club, "contact_email", "Contact student services") \o "\n\n"
                Line(club) ==
                    "? " \o Fmt(club, "name", "Club")
                    \o " (" \o Fmt(club, "club_type", "Student Club") \o ")\n"
            IN IF membership_phrase /\ named > 0 /\ NoName(named) THEN Raised
               ELSE IF is_general_query
               THEN Returned(
                        "? **Available Clubs at HMAWBI University:**\n\n"
                        \o ConcatMap(Listed, clubs_data)
                        \o "? Ask me about a specific club for detailed information including meeting schedules and membership requirements!")
               ELSE IF asking_for_general_membership
               THEN Returned(
                        "? **Club Membership Information at HMAWBI University:**\n\n"
                        \o ConcatMap(Membership, clubs_data)
                        \o "? Ask me about a specific club for detailed information!")
               ELSE IF found > 0 /\ NoName(found) THEN Raised
               ELSE IF found > 0
               THEN LET specific_club == clubs_data[found]
                    IN Returned(
                        "Here's information about **" \o Fmt(specific_club, "name", "Club")
                        \o "**:\n\n"
                        \o "? Description: "
                        \o Fmt(specific_club, "description", "Student organization") \o "\n"
                        \o "?? Type: " \o Fmt(specific_club, "club_type", "Student Club") \o "\n"
                        \o (IF asking_for_membership
                            THEN "\n? **Membership Requirements for "
                                 \o Fmt(specific_club, "name", "the Club") \o ":**\n"
                                 \o "   "
                                 \o Fmt(specific_club, "membership_requirements",
                                        "Open to all students") \o "\n\n"
                                 \o Fee(specific_club, "? Membership Fee: ")
                                 \o (IF Truthy(specific_club, "application_process")
                                     THEN "? Application Process: "
                                          \o specific_club.application_process \o "\n"
                                     ELSE "")
                                 \o "? Meeting Schedule: "
                                 \o Fmt(specific_club, "meeting_schedule", "TBA") \o "\n"
                                 \o "? Contact: "
                                 \o Fmt(specific_club, "contact_email", "Contact student services")
                                 \o "\n"
                            ELSE "??? Advisor: " \o Fmt(specific_club, "advisor", "TBA") \o "\n"
                                 \o "? Meeting Schedule: "
                                 \o Fmt(specific_club, "meeting_schedule", "TBA") \o "\n"
                                 \o "? Membership Requirements: "
                                 \o Fmt(specific_club, "membership_requirements",
                                        "Open to all students") \o "\n"
                                 \o "? Contact: "
                                 \o Fmt(specific_club, "contact_email", "Contact student services")
                                 \o "\n"
                                 \o "? Established: "
                                 \o Fmt(specific_club, "established_date", "N/A") \o "\n"
                                 \o Fee(specific_club, "? Membership Fee: "))
                        \o "\n? Contact the club directly or student services for more information about joining!")
               ELSE Returned(
                        response_templates.clubs[t] \o "\n\n"
                        \o ConcatMap(Line, Take(clubs_data, 8))
                        \o "\n? Ask me about a specific club for detailed information!"
                        \o "\n? You can ask: 'What are the membership requirements for [Club Name]?'")
       ELSE Returned(response_templates.clubs[t]
                \o "\n\nSorry, I couldn't retrieve club information at the moment. Please check back later.")

\* The events branch of ai_processor (3).py in place of the handler class:
\* upcoming events only, five of them
handle_events_inline(user_message, context_data, t) ==
    HandleEvents(user_message, context_data, t)

\* The try block of handle_events raises nothing on a context of event
\* records, so its except clause is not reached.
handle_events(user_message, context_data, t) ==
    LET message_lower == Lower(user_message)
        \* isinstance(e, dict) and e.get('title')
        Titled(e) == Truthy(e, "title")
        upcoming_events == FilterSeq(Titled, Get(context_data, "events", <<>>))
        past_events == FilterSeq(Titled, Get(context_data, "past_events", <<>>))
        all_events == upcoming_events \o past_events
        found == FirstIndex(LAMBDA i : Contains(Lower(all_events[i].title), message_lower),
                            Len(all_events))
        registration(event) ==
            Has(event, "registration_required") /\ event.registration_required
        Line(event) ==
            "? **" \o Fmt(event, "title", "Event")
            \o "** (" \o Fmt(event, "event_type", "Event") \o ")\n"
            \o "  ? " \o Fmt(event, "start_date", "TBA")
            \o " at " \o Fmt(event, "location", "TBA") \o "\n\n"
        shown == Take(past_events, 3)
        Numbered(i) ==
            ToStr(i) \o ". **" \o Fmt(shown[i], "title", "Event")
            \o "** (" \o Fmt(shown[i], "event_type", "Event") \o ")\n"
            \o "   ? " \o Fmt(shown[i], "start_date", "TBA") \o "\n\n"
        RECURSIVE Previous(_)
        Previous(i) == IF i > Len(shown) THEN "" ELSE Numbered(i) \o Previous(i + 1)
    IN IF found > 0
       THEN LET specific_event == all_events[found]
            IN Returned(
                "Here's information about **" \o Fmt(specific_event, "title", "Event") \o "**:\n\n"
                \o "? Description: " \o Fmt(specific_event, "description", "University event") \o "\n"
                \o "?? Type: " \o Fmt(specific_event, "event_type", "Event") \o "\n"
                \o "? Start Date: " \o Fmt(specific_event, "start_date", "TBA") \o "\n"
                \o "? End Date: " \o Fmt(specific_event, "end_date", "TBA") \o "\n"
                \o "? Location: " \o Fmt(specific_event, "location", "TBA") \o "\n"
                \o "? Organizer: " \o Fmt(specific_event, "organizer", "University") \o "\n"
                \o "? Registration Required: "
                \o (IF registration(specific_event) THEN "Yes" ELSE "No") \o "\n"
                \o (IF registration(specific_event)
                    THEN "? Registration Deadline: "
                         \o Fmt(specific_event, "registration_deadline", "N/A") \o "\n"
                    ELSE "")
                \o "? Contact: " \o Fmt(specific_event, "contact_info", "Contact event organizer")
                \o "\n"
                \o "? Max Participants: " \o Fmt(specific_event, "max_participants", "No limit")
                \o "\n"
                \o "\nCheck the university website or contact the organizer for the latest updates.")
       ELSE IF Contains("past events", message_lower) \/ Contains("previous events", message_lower)
       THEN IF Len(past_events) > 0
            THEN Returned("Here are some of our previous events:\n\n" \o Previous(1)
                          \o "Would you like to know about any specific past event?")
            ELSE Returned("I don't have information on past events at the moment. Please check back later.")
       ELSE IF Len(upcoming_events) > 0 \/ Len(past_events) > 0
       THEN Returned(
                response_templates.events[t] \o "\n\n"
                \o (IF Len(upcoming_events) > 0
                    THEN "**? Upcoming Events:**\n" \o ConcatMap(Line, Take(upcoming_events, 3))
                    ELSE "")
                \o (IF Len(past_events) > 0
                    THEN "**? Recent Past Events:**\n" \o ConcatMap(Line, Take(past_events, 3))
                    ELSE "")
                \o "? Ask me about a specific event for detailed information including registration details!")
       ELSE Returned(response_templates.events[t]
                \o "\n\nSorry, I couldn't retrieve event information at the moment. Please check back later.")

\* A summary cut after 100 characters, the dots on top of them
short_description_cut_at_100(content) ==
    IF Len(content) > 100 THEN TakeStr(content, 100) \o "..." ELSE content

\* short_description = content, cut to 97 characters and '...' when longer
\* than 100
short_description(content) ==
    IF Len(content) > 100 THEN TakeStr(content, 97) \o "..." ELSE content

handle_news(user_message, context_data, t) ==
    LET response == response_templates.news[t] \o "\n\n"
        news_items == Get(context_data, "news", <<>>)
        message_lower == Lower(user_message)
        \* isinstance(news_item.get('title'), str) and title.lower() in message_lower
        Match(i) ==
            /\ Has(news_items[i], "title")
            /\ ~IsNull(news_items[i], "title")
            /\ Contains(Lower(news_items[i].title), message_lower)
        found == FirstIndex(Match, Len(news_items))
        shown == Take(news_items, 5)
        Summary(i) ==
            ToStr(i) \o ". **" \o Fmt(shown[i], "title", "University News")
            \o "** (" \o Fmt(shown[i], "date", "N/A") \o ")\n"
            \o "   " \o short_description(Fmt(shown[i], "content", "No description available.")) \o "\n\n"
        RECURSIVE Summaries(_)
        Summaries(i) == IF i > Len(shown) THEN "" ELSE Summary(i) \o Summaries(i + 1)
    IN IF Len(news_items) = 0
       THEN Returned(response
                \o "? Stay tuned for exciting university updates and announcements!\n")
       ELSE IF found > 0
       THEN LET specific_news == news_items[found]
            IN Returned(
                "Here's the full story about **"
                \o Fmt(specific_news, "title", "University News") \o "**:\n\n"
                \o "? **Date:** " \o Fmt(specific_news, "date", "N/A") \o "\n"
                \o "?? **Category:** " \o Fmt(specific_news, "category", "General") \o "\n"
                \o (IF Has(specific_news, "tags") /\ Len(specific_news.tags) > 0
                    THEN "?? **Tags:** " \o Join(", ", specific_news.tags) \o "\n"
                    ELSE "")
                \o "\n? **Content:**\n"
                \o Fmt(specific_news, "content", "No content available.") \o "\n")
       \* len(content) raises on None, and the except clause answers
       ELSE IF \E i \in 1..Len(shown) : IsNull(shown[i], "content") THEN Returned(NEWS_TROUBLE)
       ELSE Returned(
                response \o "**Latest Updates:**\n" \o Summaries(1)
                \o "? Ask me about a specific news title for the full story!")


(***************************************************************************)
(* Requests.  A message is a phrase of at most MaxWords words of the       *)
(* vocabulary, taken in vocabulary order and joined by single spaces; the  *)
(* empty message is among them.                                            *)
(***************************************************************************)
Vocabulary ==
    <<"Hello", "prettiest", "rank", "staff", "deadline", "location", "office", "phone",
      "library", "Robotics Club", "event", "news", "scholarship", "activities",
      "history", "asdfqwerty", "Civil Engineering">>

Phrases ==
    {s \in UNION {[1..k -> 1..Len(Vocabulary)] : k \in 0..MaxWords} :
        \A i \in 1..Len(s) : \A j \in 1..Len(s) : i < j => s[i] < s[j]}

Messages == {Join(" ", [i \in 1..Len(s) |-> Vocabulary[s[i]]]) : s \in Phrases}

(***************************************************************************)
(* Context records as a Content Store other than the DataManager of this   *)
(* repository may hand them over: the first record of a list context       *)
(* without its name, or with None for its name or its content.             *)
(***************************************************************************)
Damages == {"none", "drop_name", "null_name", "null_content"}

NameKey(intent) == IF intent \in {"events", "news"} THEN "title" ELSE "name"

DropKey(r, key) == [k \in DOMAIN r \ {key} |-> r[k]]

SetNull(r, key) ==
    IF ~Has(r, key) THEN r
    ELSE [k \in DOMAIN r \cup {"nulls"} |->
            IF k = "nulls" THEN (IF Has(r, "nulls") THEN r.nulls ELSE {}) \cup {key}
            ELSE r[k]]

Damage(context, intent, d) ==
    IF d = "none" \/ intent \notin {"scholarships", "clubs", "events", "news"}
       \/ ~Has(context, intent)
    THEN context
    ELSE LET xs == context[intent]
             Hurt(r) == CASE d = "drop_name" -> DropKey(r, NameKey(intent))
                          [] d = "null_name" -> SetNull(r, NameKey(intent))
                          [] OTHER -> SetNull(r, "content")
         IN IF Len(xs) = 0 THEN context
            ELSE Single(intent, [i \in 1..Len(xs) |-> IF i = 1 THEN Hurt(xs[i]) ELSE xs[i]])

(***************************************************************************)
(* generate_response as a state machine: one action per step of its body   *)
(***************************************************************************)
VARIABLES
    pc,            \* position inside generate_response: idle, policy, classify,
                   \* context, handle, analyze, except, done
    user_message,  \* the argument of the call
    store,         \* the Content Store behind the DataManager
    damage,        \* what the Content Store did to the context of this call
    intent,        \* local variable intent
    context_data,  \* local variable context_data
    response,      \* local variable response
    result,        \* the returned dict
    calls          \* how often each step ran during the latest call

vars == <<pc, user_message, store, damage, intent, context_data, response, result, calls>>

NoResult == [none |-> TRUE]

NoCalls == [policy |-> 0, classify |-> 0, lookup |-> 0, handler |-> 0, analyze |-> 0]

APOLOGY_TEXT ==
    "I'm sorry, I'm having trouble processing your request right now. Please try again or contact our student services office for immediate assistance."

\* The apology dict without its urgency flag
ErrorResult_no_urgent ==
    [message |-> APOLOGY_TEXT, helpfulness |-> 3, intent |-> "error"]

ErrorResult ==
    [message |-> APOLOGY_TEXT, is_urgent |-> FALSE, helpfulness |-> 3, intent |-> "error"]

Init ==
    /\ pc = "idle"
    /\ user_message = ""
    /\ store = [models |-> "ok", rows |-> 0]
    /\ damage = "none"
    /\ intent = ""
    /\ context_data = EmptyDict
    /\ response = ""
    /\ result = NoResult
    /\ calls = NoCalls

\* views.process_message calls chatbot.generate_response(user_message, ...)
Request ==
    /\ pc = "idle"
    /\ \E m \in Messages : user_message' = m
    /\ pc' = "policy"
    /\ calls' = NoCalls
    /\ UNCHANGED <<store, damage, intent, context_data, response, result>>

\* if self._is_disallowed_request(user_message): return self._handle_disallowed_request(...)
PolicyRefuse ==
    /\ pc = "policy"
    /\ _is_disallowed_request(user_message)
    /\ result' = _handle_disallowed_request(user_message)
    /\ pc' = "done"
    /\ calls' = [calls EXCEPT !.policy = @ + 1]
    /\ UNCHANGED <<user_message, store, damage, intent, context_data, response>>

\* The pipeline going on whatever the policy check says
PolicyPass_unguarded ==
    /\ pc = "policy"
    /\ pc' = "classify"
    /\ calls' = [calls EXCEPT !.policy = @ + 1]
    /\ UNCHANGED <<user_message, store, damage, intent, context_data, response, result>>

PolicyPass ==
    /\ pc = "policy"
    /\ ~_is_disallowed_request(user_message)
    /\ pc' = "classify"
    /\ calls' = [calls EXCEPT !.policy = @ + 1]
    /\ UNCHANGED <<user_message, store, damage, intent, context_data, response, result>>

\* A classifier with a memory of the conversation: a greeting repeated
\* after a greeting is not taken for a greeting again
Classify_remembering ==
    /\ pc = "classify"
    /\ intent' = IF "intent" \in DOMAIN result /\ result.intent = "greeting"
                 THEN "default"
                 ELSE _classify_message_intent(user_message)
    /\ pc' = "context"
    /\ calls' = [calls EXCEPT !.classify = @ + 1]
    /\ UNCHANGED <<user_message, store, damage, context_data, response, result>>

\* intent = self._classify_message_intent(user_message)
Classify ==
    /\ pc = "classify"
    /\ intent' = _classify_message_intent(user_message)
    /\ pc' = "context"
    /\ calls' = [calls EXCEPT !.classify = @ + 1]
    /\ UNCHANGED <<user_message, store, damage, context_data, response, result>>

\* context_data = self._get_relevant_context(user_message, intent) or {}
\* d is what the Content Store did to the records it handed over.
LoadContext(d) ==
    /\ pc = "context"
    /\ LET got == _get_relevant_context(store, intent)
       IN IF got.raised
          THEN /\ pc' = "except"
               /\ damage' = "none"
               /\ UNCHANGED context_data
          ELSE /\ pc' = "handle"
               /\ damage' = IF Damage(got.value, intent, d) = got.value THEN "none" ELSE d
               /\ context_data' = Damage(got.value, intent, d)
    /\ calls' = [calls EXCEPT !.lookup = @ + (IF intent \in DataIntents THEN 1 ELSE 0)]
    /\ UNCHANGED <<user_message, store, intent, response, result>>

\* A context loader that fills an empty table with a first row while it
\* reads (a get_or_create in place of the filter)
GetRelevantContext_seeding ==
    /\ pc = "context"
    /\ LET got == _get_relevant_context(store, intent)
       IN IF got.raised
          THEN pc' = "except" /\ UNCHANGED context_data
          ELSE pc' = "handle" /\ context_data' = got.value
    /\ store' = IF store.models = "ok" /\ store.rows = 0 /\ intent \in DataIntents
                THEN [store EXCEPT !.rows = 1]
                ELSE store
    /\ damage' = "none"
    /\ calls' = [calls EXCEPT !.lookup = @ + (IF intent \in DataIntents THEN 1 ELSE 0)]
    /\ UNCHANGED <<user_message, intent, response, result>>

GetRelevantContext ==
    /\ pc = "context"
    /\ LoadContext("none")

SuppliedContext ==
    /\ pc = "context"
    /\ \E d \in Damages : LoadContext(d)

\* response = self._generate_rule_based_response(user_message, intent, context_data)
GenerateRuleBasedResponse ==
    /\ pc = "handle"
    /\ \E t \in Choices :
         LET made == _generate_rule_based_response(user_message, intent, context_data, t)
         IN IF made.raised
            THEN pc' = "except" /\ UNCHANGED response
            ELSE pc' = "analyze" /\ response' = made.value
    /\ calls' = [calls EXCEPT !.handler = @ + 1]
    /\ UNCHANGED <<user_message, store, damage, intent, context_data, result>>

\* analysis = self._analyze_response(user_message, response); return {...}
AnalyzeResponse ==
    /\ pc = "analyze"
    /\ LET analysis == _analyze_response(user_message, response)
       IN result' = [message |-> response,
                     is_urgent |-> analysis.is_urgent,
                     helpfulness |-> analysis.helpfulness,
                     context_used |-> DOMAIN context_data # {},
                     intent |-> intent]
    /\ pc' = "done"
    /\ calls' = [calls EXCEPT !.analyze = @ + 1]
    /\ UNCHANGED <<user_message, store, damage, intent, context_data, response>>

\* An except clause that does not match the exception raised
CatchAll_narrow ==
    /\ pc = "except"
    /\ pc' = "escaped"
    /\ UNCHANGED <<user_message, store, damage, intent, context_data, response, result, calls>>

\* except Exception as e: ... return {...}
CatchAll ==
    /\ pc = "except"
    /\ result' = ErrorResult
    /\ pc' = "done"
    /\ UNCHANGED <<user_message, store, damage, intent, context_data, response, calls>>

\* Between two requests the staff edits the Content Store through the admin,
\* or the database becomes unreachable.
\* The caller (views.process_message) takes the returned dict; the locals of
\* the call are gone.
Return ==
    /\ pc = "done"
    /\ pc' = "idle"
    /\ user_message' = ""
    /\ damage' = "none"
    /\ intent' = ""
    /\ context_data' = EmptyDict
    /\ response' = ""
    /\ result' = NoResult
    /\ UNCHANGED <<store, calls>>

StoreChange ==
    /\ pc = "idle"
    /\ \E st \in Stores \ {store} : store' = st
    /\ UNCHANGED <<pc, user_message, damage, intent, context_data, response, result, calls>>

Next ==
    \/ Request
    \/ PolicyRefuse
    \/ PolicyPass
    \/ Classify
    \/ GetRelevantContext
    \/ GenerateRuleBasedResponse
    \/ AnalyzeResponse
    \/ CatchAll
    \/ Return
    \/ StoreChange

Spec == Init /\ [][Next]_vars

\* The same pipeline fed by any Content Store that implements the lookup calls.
NextHandler ==
    \/ Request
    \/ PolicyRefuse
    \/ PolicyPass
    \/ Classify
    \/ SuppliedContext
    \/ GenerateRuleBasedResponse
    \/ AnalyzeResponse
    \/ CatchAll
    \/ Return
    \/ StoreChange

SpecHandler == Init /\ [][NextHandler]_vars

\* views.process_message is called again with the same text before the
\* Content Store changes: a second generate_response call on the same
\* chatbot object.  The caller still holds the dict the first call returned;
\* the history it passes is built from the first exchange, and
\* generate_response reads nothing of it.
Repeat ==
    /\ pc = "done"
    /\ pc' = "policy"
    /\ damage' = "none"
    /\ intent' = ""
    /\ context_data' = EmptyDict
    /\ response' = ""
    /\ calls' = NoCalls
    /\ UNCHANGED <<user_message, store, result>>

NextRepeat ==
    \/ Request
    \/ PolicyRefuse
    \/ PolicyPass
    \/ Classify
    \/ GetRelevantContext
    \/ GenerateRuleBasedResponse
    \/ AnalyzeResponse
    \/ CatchAll
    \/ Return
    \/ StoreChange
    \/ Repeat

SpecRepeat == Init /\ [][NextRepeat]_vars

\* The example inputs of the specification's test strategy, and their
\* nearest variants
Scenarios ==
    {"Hello",
     "Who is the prettiest student?",
     "Tell me about Civil Engineering",
     "What are the latest university news?",
     "What are the latest news?",
     "Contact information for Department of Civil Engineering",
     "Contact information for Civil Engineering Department",
     "asdfqwerty"}

\* views.process_message calls chatbot.generate_response(user_message, ...)
\* with one of the example inputs
RequestScenario ==
    /\ pc = "idle"
    /\ \E m \in Scenarios : user_message' = m
    /\ pc' = "policy"
    /\ calls' = NoCalls
    /\ UNCHANGED <<store, damage, intent, context_data, response, result>>

NextScenario ==
    \/ RequestScenario
    \/ PolicyRefuse
    \/ PolicyPass
    \/ Classify
    \/ GetRelevantContext
    \/ GenerateRuleBasedResponse
    \/ AnalyzeResponse
    \/ CatchAll
    \/ Return
    \/ StoreChange

SpecScenario == Init /\ [][NextScenario]_vars

(***************************************************************************)
(* The handler classes called on their own.  A caller hands a method of    *)
(* AcademicHandler, InfoHandler or ActivityHandler the message and a       *)
(* context dict of its own making: nothing, an empty value, what the       *)
(* DataManager getters return, or records of any Content Store.            *)
(***************************************************************************)
HandlerMessages ==
    {"", "Tell me about Civil Engineering", "civil engineering requirements?",
     "Tell me about Robotics Club.", "tell me about robotics club", "how to join Robotics Club",
     "which clubs do we have", "which clubs do we have besides Robotics Club",
     "list of clubs like Drama Club", "club membership", "list of clubs and club membership",
     "Merit Scholarship details", "scholarship requirements",
     "Tech Festival!", "past events", "past events like Old Ceremony",
     "previous events or Tech Festival", "upcoming events",
     "New Library Opens?", "latest news",
     "Contact information for Department of Civil Engineering",
     "Contact information for Civil Engineering Department",
     "who is rector", "what is the pro-rector name", "who is pro-rector",
     "pro rector name please", "university leadership", "where is the university",
     "university history", "tell me about university"}

\* context_data['contact'] with the department names of another Content Store
ContactBooks ==
    LET Entry(department) ==
            [key |-> department,
             value |-> [kind |-> "dict", phone |-> "+95-1-555000", email |-> "dept@hmawbi.edu.mm",
                        teacher |-> "Dr. Aung", location |-> "Main Building",
                        hours |-> "9AM-4PM", description |-> "Handles inquiries"]]
    IN {MapSeq(Entry, names) :
            names \in {<<"Department of Civil Engineering">>,
                       <<"Civil Engineering Department">>,
                       <<"Admissions Office", "Civil Engineering Department">>,
                       <<"Library", "Department of Civil Engineering">>}}

\* context_data['university_info'] holding some of a rector entry, a
\* pro-rector entry and a leadership entry, in every order
InfoBooks ==
    LET Entry(info_type, title, content) ==
            [key |-> info_type,
             value |-> [kind |-> "dict", title |-> title, content |-> content,
                        description |-> "Not specified"]]
        entries == <<Entry("Rector", "Rector", "Dr. John Doe"),
                     Entry("Pro-Rector", "Pro-Rector", "Dr. Jane Smith"),
                     Entry("Leadership", "University Leadership",
                           "Rector: Dr. John Doe\nPro-Rector: Dr. Jane Smith"),
                     Entry("Administration Leadership", "Administration", "Rector: Dr. John Doe")>>
        orders == {s \in UNION {[1..k -> 1..Len(entries)] : k \in 1..3} :
                      \A i \in 1..Len(s) : \A j \in 1..Len(s) : i # j => s[i] # s[j]}
    IN {[i \in 1..Len(s) |-> entries[s[i]]] : s \in orders}

MaxEvents == 4

\* context_data['events'] and context_data['past_events']: up to MaxEvents
\* events of each kind, or the keys left out
EventCalendars ==
    LET Coming(k) ==
            EventEntry([UniversityEvent(1) EXCEPT
                            !.title = NameOf(<<"Tech Festival", "Open Day">>, "Seminar", k)])
        Past(k) ==
            EventEntry([UniversityEvent(2) EXCEPT
                            !.title = NameOf(<<"Old Ceremony">>, "Reunion", k)])
    IN {[events |-> [k \in 1..u |-> Coming(k)], past_events |-> [k \in 1..p |-> Past(k)]] :
            u \in 0..MaxEvents, p \in 0..MaxEvents}
       \cup {Single("past_events", [k \in 1..p |-> Past(k)]) : p \in 1..MaxEvents}

MaxRecords == 10

\* Besides the contexts of the pipeline's stores: the records of a Content
\* Store with up to MaxRecords rows a table, and for the news a list that
\* the caller did not cut to five items
HandlerContexts(category) ==
    LET loaded == {_get_relevant_context(st, category) : st \in Stores}
        fromStore == {Damage(got.value, category, d) :
                         got \in {g \in loaded : ~g.raised}, d \in Damages}
        large == {[models |-> "ok", rows |-> n] : n \in (MaxRows + 1)..MaxRecords}
        fromLarge == {_get_relevant_context(st, category).value : st \in large}
                     \cup (IF category = "news"
                           THEN {Single("news", get_latest_news(st, MaxRecords).value) :
                                    st \in large}
                           ELSE {})
    IN {EmptyDict, Single(category, <<>>)} \cup fromStore \cup fromLarge
       \cup (CASE category = "contact" ->
                    {Single("contact", book) : book \in ContactBooks}
               [] category = "university_info" ->
                    {Single("university_info", book) : book \in InfoBooks}
               [] category = "events" -> EventCalendars
               [] OTHER -> {})

\* handler.handle_<category>(user_message, context_data), or without the
\* message for the methods that take none
CallHandler(category) ==
    /\ pc = "idle"
    /\ \E m \in HandlerMessages, ctx \in HandlerContexts(category), t \in Choices :
         LET made ==
                CASE category = "programs" -> handle_programs(m, ctx, t)
                  [] category = "admission" -> handle_admission(ctx, t)
                  [] category = "campus" -> handle_campus(ctx, t)
                  [] category = "student_life" -> handle_student_life(ctx, t)
                  [] category = "scholarships" -> handle_scholarships(m, ctx, t)
                  [] category = "clubs" -> handle_clubs(m, ctx, t)
                  [] category = "events" -> handle_events(m, ctx, t)
                  [] category = "news" -> handle_news(m, ctx, t)
                  [] category = "contact" -> handle_contact(m, ctx, t)
                  [] category = "university_info" -> handle_university_info(m, ctx, t)
         IN /\ user_message' = m
            /\ intent' = category
            /\ context_data' = ctx
            /\ IF made.raised
               THEN pc' = "raised" /\ UNCHANGED response
               ELSE pc' = "replied" /\ response' = made.value
    /\ UNCHANGED <<store, damage, result, calls>>

\* The caller has the reply, or the exception
HandlerDone ==
    /\ pc \in {"replied", "raised"}
    /\ pc' = "idle"
    /\ user_message' = ""
    /\ intent' = ""
    /\ context_data' = EmptyDict
    /\ response' = ""
    /\ UNCHANGED <<store, damage, result, calls>>

NextClasses ==
    \/ \E category \in DataIntents : CallHandler(category)
    \/ HandlerDone

SpecClasses == Init /\ [][NextClasses]_vars

(***************************************************************************)
(* Properties                                                              *)
(***************************************************************************)
(***************************************************************************)
(* The admin of the news table next to the chatbot.  The staff saves a     *)
(* news item through UniversityNewsAdmin, as a new row or over an existing *)
(* one; between two saves the chatbot answers requests from the table.     *)
(***************************************************************************)
MaxNews == 2

inappropriate_keywords ==
    {"prettiest", "ugliest", "worst teacher", "best looking", "hottest",
     "ranking students", "ranking staff", "personal appearance"}

\* An admin that keeps the tick of the moderator
save_model_keeping_tick(obj) == obj

\* UniversityNewsAdmin.save_model up to super().save_model
save_model(obj) ==
    LET content_text == Lower(obj.title \o " " \o obj.content)
    IN IF \E keyword \in inappropriate_keywords : Contains(keyword, content_text)
       THEN [obj EXCEPT !.content_approved = FALSE,
                        !.moderator_notes = "Requires manual review due to potentially inappropriate content"]
       ELSE [obj EXCEPT !.content_approved = TRUE]

\* What the staff types into the form: a headline, a text, the two ticks
NewsForms ==
    {[headline |-> text[1], content |-> text[2], is_published |-> p, content_approved |-> a] :
        text \in {<<"Sports Day", "The new wing is open.">>,
                  <<"Prettiest Smile Contest", "The new wing is open.">>,
                  <<"The Worst", "Teacher awards are announced.">>},
        p \in BOOLEAN, a \in BOOLEAN}

\* The title of the row pk carries its number
NewsTitle(pk, headline) == "Bulletin " \o ToStr(pk) \o ": " \o headline

\* The add view and the change view of UniversityNewsAdmin
AdminSaveNews ==
    /\ pc = "idle"
    /\ store.models = "ok"
    /\ \E pk \in 1..MaxNews, form \in NewsForms :
         LET table == NewsTable(store)
             change == pk <= Len(table)
             obj == [pk |-> pk,
                     title |-> NewsTitle(pk, form.headline),
                     content |-> form.content,
                     category |-> "general",
                     tags |-> "",
                     is_published |-> form.is_published,
                     content_approved |-> form.content_approved,
                     moderator_notes |-> IF change THEN table[pk].moderator_notes ELSE "",
                     created_at |-> T(2025, 1, pk, 8, 0)]
             saved == save_model(obj)
         IN /\ pk <= Len(table) + 1
            /\ store' = [models |-> store.models, rows |-> store.rows,
                         news |-> IF change THEN [table EXCEPT ![pk] = saved]
                                  ELSE Append(table, saved)]
    /\ UNCHANGED <<pc, user_message, damage, intent, context_data, response, result, calls>>

NewsMessages ==
    {"latest news", "location", "who is the prettiest",
     "news " \o NewsTitle(1, "Sports Day"), "news " \o NewsTitle(2, "The Worst")}

\* views.process_message calls chatbot.generate_response(user_message, ...)
RequestNews ==
    /\ pc = "idle"
    /\ \E m \in NewsMessages : user_message' = m
    /\ pc' = "policy"
    /\ calls' = NoCalls
    /\ UNCHANGED <<store, damage, intent, context_data, response, result>>

NextNews ==
    \/ AdminSaveNews
    \/ RequestNews
    \/ PolicyRefuse
    \/ PolicyPass
    \/ Classify
    \/ GetRelevantContext
    \/ GenerateRuleBasedResponse
    \/ AnalyzeResponse
    \/ CatchAll
    \/ Return

SpecNews == Init /\ [][NextNews]_vars

(***************************************************************************)
(* The views in front of the chatbot.  In this specification the store     *)
(* also holds the tables Conversation and Message and the conversation_id  *)
(* of the browser session (0 when the session has none); a conversation is *)
(* known by its place in the table.  calls.conversation is the local       *)
(* variable conversation of the process_message request in flight, and     *)
(* result becomes the JsonResponse once the view has answered; the session *)
(* middleware writes the session of a request when its response leaves,    *)
(* and calls.modified is 1 when process_message has set the key.  One      *)
(* process_message request is in flight at a time; chat_view, clear_chat   *)
(* and the cleanup run between any two of its steps.                       *)
(***************************************************************************)
MaxConversations == 2

MaxMessages == 4

NoCallsFor(conversation) ==
    [k \in DOMAIN NoCalls \cup {"conversation", "modified"} |->
        IF k = "conversation" THEN conversation ELSE 0]

InitViews ==
    /\ pc = "idle"
    /\ user_message = ""
    /\ store = [models |-> "ok", rows |-> 0, conversations |-> <<>>, messages |-> <<>>,
                session |-> 0]
    /\ damage = "none"
    /\ intent = ""
    /\ context_data = EmptyDict
    /\ response = ""
    /\ result = NoResult
    /\ calls = NoCallsFor(0)

\* The bodies of the POST requests: the message as typed, or no JSON at all
ViewRequests ==
    [json : {TRUE}, message : {"", "   ", " Hello ", "location", "who is the prettiest"}]
        \cup {[json |-> FALSE, message |-> ""]}

\* Conversation.objects.get(session_id=session_id) finds a row
ConversationExists(st, session_id) == session_id \in 1..Len(st.conversations)

\* Conversation.objects.create()
CreateConversation(st) ==
    [st EXCEPT !.conversations = Append(@, [is_active |-> TRUE, ended_at |-> FALSE])]

\* Message.objects.create(conversation=..., message_type=..., content=..., ...)
CreateMessage(st, conversation, message_type, content, helpfulness_score) ==
    [st EXCEPT !.messages = Append(@, [conversation |-> conversation,
                                        message_type |-> message_type,
                                        content |-> content,
                                        helpfulness_score |-> helpfulness_score])]

\* process_message up to the test of the message
ProcessMessage ==
    /\ pc = "idle"
    /\ Len(store.messages) + 2 <= MaxMessages
    /\ \E request \in ViewRequests :
         IF ~request.json
         THEN /\ result' = [status |-> 400, error |-> "Invalid JSON format in request."]
              /\ pc' = "answered"
              /\ UNCHANGED user_message
         ELSE IF Strip(request.message) = ""
         THEN /\ result' = [status |-> 400, error |-> "No message provided"]
              /\ pc' = "answered"
              /\ UNCHANGED user_message
         ELSE /\ user_message' = Strip(request.message)
              /\ pc' = "session"
              /\ UNCHANGED result
    /\ calls' = NoCallsFor(0)
    /\ UNCHANGED <<store, damage, intent, context_data, response>>

\* session_id = request.session.get('conversation_id'); get or create
GetConversation ==
    /\ pc = "session"
    /\ IF store.session # 0 /\ ConversationExists(store, store.session)
       THEN /\ calls' = [calls EXCEPT !.conversation = store.session]
            /\ UNCHANGED store
       ELSE /\ Len(store.conversations) < MaxConversations
            /\ store' = CreateConversation(store)
            /\ calls' = [calls EXCEPT !.conversation = Len(store.conversations) + 1,
                                      !.modified = 1]
    /\ pc' = "save_user"
    /\ UNCHANGED <<user_message, damage, intent, context_data, response, result>>

\* A view that saves nothing before the chatbot has answered
SaveUserMessage_skipped ==
    /\ pc = "save_user"
    /\ pc' = "policy"
    /\ UNCHANGED <<user_message, store, damage, intent, context_data, response, result, calls>>

\* user_msg = Message.objects.create(...); then the history and the chatbot
SaveUserMessage ==
    /\ pc = "save_user"
    /\ store' = CreateMessage(store, calls.conversation, "user", user_message, "None")
    /\ pc' = "policy"
    /\ UNCHANGED <<user_message, damage, intent, context_data, response, result, calls>>

\* The view of a request whose status is 200
JsonResponse(st, response_dict, bot_msg_pk) ==
    LET is_urgent == Get(response_dict, "is_urgent", FALSE)
        Name(r) == r.name
    IN [status |-> 200,
        bot_response |-> response_dict.message,
        is_urgent |-> is_urgent,
        helpfulness |-> response_dict.helpfulness,
        intent |-> Get(response_dict, "intent", "unknown"),
        relevant_resources |-> IF is_urgent
                               THEN MapSeq(Name, FilterSeq(IsActive, Table(Scholarship, st.rows)))
                               ELSE <<>>,
        message_id |-> bot_msg_pk]

\* bot_msg = Message.objects.create(...); return JsonResponse({...})
SaveBotMessage ==
    /\ pc = "done"
    /\ store' = CreateMessage(store, calls.conversation, "bot", result.message,
                              result.helpfulness)
    /\ result' = JsonResponse(store, result, Len(store.messages) + 1)
    /\ pc' = "answered"
    /\ UNCHANGED <<user_message, damage, intent, context_data, response, calls>>

\* except Exception as chatbot_error: the constructor of the chatbot or
\* generate_response raised
ChatbotError ==
    /\ pc = "policy"
    /\ store' = CreateMessage(store, calls.conversation, "bot", APOLOGY_TEXT, 3)
    /\ result' = [status |-> 200,
                  bot_response |-> APOLOGY_TEXT,
                  is_urgent |-> FALSE,
                  helpfulness |-> 3,
                  intent |-> "error",
                  relevant_resources |-> <<>>,
                  message_id |-> Len(store.messages) + 1,
                  error_debug |-> "None"]
    /\ pc' = "answered"
    /\ UNCHANGED <<user_message, damage, intent, context_data, response, calls>>

\* The response leaves the view; its locals are gone
Respond ==
    /\ pc = "answered"
    /\ pc' = "idle"
    /\ user_message' = ""
    /\ damage' = "none"
    /\ intent' = ""
    /\ context_data' = EmptyDict
    /\ response' = ""
    /\ result' = NoResult
    /\ calls' = NoCallsFor(0)
    /\ store' = IF calls.modified = 1 THEN [store EXCEPT !.session = calls.conversation]
                ELSE store

\* chat_view: the page creates a conversation for a session without one
ChatView ==
    /\ ~(store.session # 0 /\ ConversationExists(store, store.session))
    /\ Len(store.conversations) < MaxConversations
    /\ store' = [CreateConversation(store) EXCEPT !.session = Len(store.conversations) + 1]
    /\ UNCHANGED <<pc, user_message, damage, intent, context_data, response, result, calls>>

\* A clear_chat that leaves the conversation as it is
ClearChat_session_only ==
    /\ store.session # 0
    /\ store' = [store EXCEPT !.session = 0]
    /\ UNCHANGED <<pc, user_message, damage, intent, context_data, response, result, calls>>

\* clear_chat: the conversation of the session is ended, the session forgets it
ClearChat ==
    /\ store.session # 0
    /\ store' = [store EXCEPT
                   !.conversations =
                       IF ConversationExists(store, store.session)
                       THEN [@ EXCEPT ![store.session] = [is_active |-> FALSE, ended_at |-> TRUE]]
                       ELSE @,
                   !.session = 0]
    /\ UNCHANGED <<pc, user_message, damage, intent, context_data, response, result, calls>>

\* ConversationManager.cleanup_inactive_conversations: the first k
\* conversations were started before the cutoff
CleanupInactiveConversations ==
    /\ \E k \in 1..Len(store.conversations) :
         /\ \E i \in 1..k : store.conversations[i].is_active
         /\ store' = [store EXCEPT !.conversations =
                        [i \in 1..Len(@) |->
                            IF i <= k /\ @[i].is_active
                            THEN [is_active |-> FALSE, ended_at |-> TRUE]
                            ELSE @[i]]]
    /\ UNCHANGED <<pc, user_message, damage, intent, context_data, response, result, calls>>

NextViews ==
    \/ ProcessMessage
    \/ GetConversation
    \/ SaveUserMessage
    \/ ChatbotError
    \/ PolicyRefuse
    \/ PolicyPass
    \/ Classify
    \/ GetRelevantContext
    \/ GenerateRuleBasedResponse
    \/ AnalyzeResponse
    \/ CatchAll
    \/ SaveBotMessage
    \/ Respond
    \/ ChatView
    \/ ClearChat
    \/ CleanupInactiveConversations

SpecViews == InitViews /\ [][NextViews]_vars

Finished == pc = "done"

\* C1: a message that matches a policy pattern always ends with intent
\* 'policy_violation', whatever classifier rule it also satisfies, and the
\* classifier never runs before the policy check has let the message pass.
C1_PolicyBeforeClassification ==
    /\ (Finished /\ _is_disallowed_request(user_message))
          => (result.intent = "policy_violation" /\ calls.classify = 0)
    /\ (pc # "idle" /\ calls.classify > 0)
          => (calls.policy = 1 /\ ~_is_disallowed_request(user_message))

\* A refused message that the classifier would have put into a category
C1_Witness ==
    /\ Finished
    /\ _is_disallowed_request(user_message)
    /\ _classify_message_intent(user_message) \notin {"default"}
    /\ result.intent = "policy_violation"

\* C2: on a policy match the result is the fixed refusal text with
\* helpfulness 0.6, is_urgent false and intent 'policy_violation', and no
\* classification, store lookup, handler or analyzer step has run - also
\* when the message holds an urgency keyword.
C2_PolicyShortCircuit ==
    (Finished /\ _is_disallowed_request(user_message)) =>
        /\ result = [message |-> "I can't help identify or rank private individuals by appearance or make negative claims about staff. I can help in one of these ways: (1) run an anonymous poll for campus awards, (2) show campus-approved highlights or official recognitions, (3) explain how to submit formal feedback. Which would you prefer?",
                     is_urgent |-> FALSE, helpfulness |-> 6, intent |-> "policy_violation"]
        /\ calls = [policy |-> 1, classify |-> 0, lookup |-> 0, handler |-> 0, analyze |-> 0]

\* A refused message with an urgency keyword
C2_Witness ==
    /\ Finished
    /\ _is_disallowed_request(user_message)
    /\ AnyIn(urgency_keywords, Lower(user_message))
    /\ result.is_urgent = FALSE

FirstMatch(order, message) ==
    LET message_lower == Lower(message)
        matched == {i \in 1..Len(order) : RuleMatches(order[i], message_lower)}
    IN IF matched = {} THEN "default"
       ELSE order[CHOOSE i \in matched : \A j \in matched : i <= j]

Classified == pc \in {"context", "handle", "analyze", "except", "done"} /\ calls.classify = 1

\* C4 as stated: the rules are tried in the order contact, university_info,
\* campus, clubs, programs, greeting, events, student_life, admission,
\* scholarships, news, and the first rule that matches gives the category.
C4_Original ==
    Classified =>
        intent = FirstMatch(<<"contact", "university_info", "campus", "clubs", "programs",
                              "greeting", "events", "student_life", "admission",
                              "scholarships", "news">>, user_message)

\* C4 amended: the rules are tried in the order university_info, contact,
\* greeting, campus, programs, clubs, events, student_life, admission,
\* scholarships, news, and the first rule that matches gives the category.
C4_Amended ==
    Classified =>
        intent = FirstMatch(<<"university_info", "contact", "greeting", "campus", "programs",
                              "clubs", "events", "student_life", "admission",
                              "scholarships", "news">>, user_message)

\* A message that satisfies the clubs rule and the programs rule
C4_Witness ==
    /\ Classified
    /\ RuleMatches("clubs", Lower(user_message))
    /\ RuleMatches("programs", Lower(user_message))
    /\ intent = "programs"

Categories ==
    {"university_info", "contact", "greeting", "campus", "programs", "clubs", "events",
     "student_life", "admission", "scholarships", "news", "default"}

\* C5: the classifier gives every message, the empty one included, exactly
\* one label of the category set, and gives 'default' exactly when no rule
\* matches; such a message causes no store lookup, is answered with one of
\* the default templates, and has context_used false.
C5_DefaultIffNoRule ==
    /\ Classified =>
          /\ intent \in Categories
          /\ (intent = "default") <=>
                (\A c \in Categories : ~RuleMatches(c, Lower(user_message)))
    /\ (Finished /\ intent = "default") =>
          /\ calls.lookup = 0
          /\ result.intent = "default"
          /\ \E t \in Choices : result.message = response_templates.default[t]
          /\ result.context_used = FALSE

\* The empty message answered
C5_Witness ==
    /\ Finished
    /\ user_message = ""
    /\ intent = "default"
    /\ result.context_used = FALSE

\* C6: a message with a greeting word as a whole word, and with no
\* disallowed pattern, no contact keyword and no university-info keyword,
\* gets intent 'greeting', also when it holds campus, club or program
\* keywords.
C6_GreetingWins ==
    (/\ Finished
     /\ \E w \in greeting_words : SearchWord(w, Lower(user_message))
     /\ ~_is_disallowed_request(user_message)
     /\ ~AnyIn(contact_keywords, Lower(user_message))
     /\ ~AnyIn(university_info_keywords, Lower(user_message)))
    => result.intent = "greeting"

\* A greeting that also holds a campus, club or program keyword
C6_Witness ==
    /\ Finished
    /\ result.intent = "greeting"
    /\ AnyIn(campus_keywords \cup club_keywords \cup program_keywords, Lower(user_message))

\* C7: no exception leaves generate_response: whenever a step of the call
\* raises, the call ends at once, without a second attempt of any step, with
\* the fixed apology, is_urgent false, helpfulness 0.3 and intent 'error';
\* every returned dict has a non-empty text under 'message'.
C7_CatchAllApology ==
    [][/\ pc = "except" =>
            /\ pc' = "done"
            /\ calls' = calls
            /\ result' = [message |-> "I'm sorry, I'm having trouble processing your request right now. Please try again or contact our student services office for immediate assistance.",
                          is_urgent |-> FALSE, helpfulness |-> 3, intent |-> "error"]
       /\ pc' = "done" =>
            /\ "message" \in DOMAIN result'
            /\ Len(result'.message) > 0
            /\ \A step \in DOMAIN calls' : calls'[step] <= 1
       /\ pc' \in {"idle", "policy", "classify", "context", "handle", "analyze", "except", "done"}
      ]_vars

\* An apology returned after the handler raised
C7_Witness ==
    /\ Finished
    /\ calls.handler = 1
    /\ calls.analyze = 0
    /\ result.intent = "error"
    /\ result.helpfulness = 3

\* Whether the handler of the intent runs into an exception while it builds
\* its reply, caught inside the handler or not
HandlerFails ==
    IF intent = "news" THEN NewsBody(user_message, context_data, 1).raised
    ELSE _generate_rule_based_response(user_message, intent, context_data, 1).raised

C9_HelpfulnessValues ==
    Finished =>
        /\ result.helpfulness \in {3, 5, 6, 8, 9}
        /\ result.helpfulness = 3 => result.intent = "error"

\* A short reply scored 0.5
C9_Witness ==
    /\ Finished
    /\ Len(result.message) < 50
    /\ result.helpfulness = 5
    /\ result.intent # "error"

\* C10: the analyzer gives 0.5 to a reply of fewer than 50 characters;
\* else 0.6 to a reply with an "I don't have that info" or "couldn't
\* retrieve" phrase; else 0.9 to a reply with one of the words contact,
\* office, email, phone; else 0.8.
C10_AnalyzerTable ==
    (Finished /\ calls.analyze = 1) =>
        result.helpfulness =
            IF Len(response) < 50 THEN 5
            ELSE IF Contains("I don't have that info", response)
                    \/ Contains("couldn't retrieve", response) THEN 6
            ELSE IF \E w \in {"contact", "office", "email", "phone"} : Contains(w, Lower(response))
                 THEN 9
            ELSE 8

\* C11: on every path that reaches the analyzer, is_urgent is true exactly
\* when the lower-cased message holds one of the seven urgency keywords
\* urgent, emergency, deadline, immediately, asap, help, problem; the intent,
\* the context and the reply text have no say.
C11_UrgencyFromMessage ==
    (Finished /\ calls.analyze = 1) =>
        (result.is_urgent <=>
            \E k \in {"urgent", "emergency", "deadline", "immediately", "asap", "help", "problem"} :
                Contains(k, Lower(user_message)))

\* An urgent message answered by a handler other than the admission one,
\* with a reply that holds no urgency keyword
C11_Witness ==
    /\ Finished
    /\ calls.analyze = 1
    /\ result.is_urgent
    /\ intent # "admission"
    /\ ~AnyIn(urgency_keywords, Lower(response))

\* C12: two calls of generate_response with the same message against the
\* same Content Store content return the same intent and the same
\* is_urgent, whatever template the random choice selects in either call and
\* whatever history is passed; the first call changes nothing the second
\* call's result depends on.
C12_SameMessageSameIntent ==
    [][(pc' = "done" /\ pc # "done" /\ "intent" \in DOMAIN result) =>
            /\ result'.intent = result.intent
            /\ result'.is_urgent = result.is_urgent
      ]_vars

\* A second call that chose another template than the first, about to be
\* analyzed
C12_Witness ==
    /\ pc = "analyze"
    /\ "message" \in DOMAIN result
    /\ result.intent = intent
    /\ response # result.message

\* C15: no step of a generate_response call creates, modifies or deletes a
\* Content Store record: the store after every step of a call is the store
\* before it, so the store after any sequence of requests is the store
\* before the sequence.
C15_StoreUntouched ==
    [][(pc # "idle" \/ pc' # "idle") => store' = store]_vars

\* A finished call that read a table with rows through the DataManager
C15_Witness ==
    /\ Finished
    /\ calls.lookup = 1
    /\ store.models = "ok"
    /\ store.rows > 0
    /\ DOMAIN context_data # {}

\* The number of places where kw occurs in s
CountOf(kw, s) ==
    Cardinality({i \in 1..(Len(s) - Len(kw) + 1) : SubSeq(s, i, i + Len(kw) - 1) = kw})

\* C16: for the input "What are the latest university news?" with 3 news
\* rows in the store the result has intent 'news' and the reply lists at
\* most 3 items (each item is a title line followed by an indented summary
\* line).
C16_ScenarioD ==
    (/\ Finished
     /\ user_message = "What are the latest university news?"
     /\ store = [models |-> "ok", rows |-> 3])
    => /\ result.intent = "news"
       /\ Contains("**Latest Updates:**", result.message)
       /\ CountOf("\n   ", result.message) <= 3

\* The caller handed the handler no context for its category, or an empty one
EmptyContext ==
    /\ pc \in {"replied", "raised"}
    /\ context_data \in {EmptyDict, Single(intent, <<>>)}

\* C13 as stated: every category handler called with an empty or absent
\* context returns without raising, and its reply holds a "could not
\* retrieve" or a "check back later" phrase.
C13_EmptyContextPhrase ==
    EmptyContext
    => /\ pc = "replied"
       /\ AnyIn({"couldn't retrieve", "could not retrieve", "check back later"},
                Lower(response))

\* The names of the entities in the context of the latest handler call:
\* the keys of a programs or contact dict, the name or title of the records
\* of a list
EntityNames ==
    LET Of(key, field) ==
            IF Has(context_data, key)
            THEN {context_data[key][i][field] :
                    i \in {j \in 1..Len(context_data[key]) :
                              /\ Has(context_data[key][j], field)
                              /\ ~IsNull(context_data[key][j], field)}}
            ELSE {}
    IN CASE intent \in {"programs", "contact"} -> Of(intent, "key")
         [] intent \in {"scholarships", "clubs"} -> Of(intent, "name")
         [] intent = "news" -> Of("news", "title")
         [] intent = "events" -> Of("events", "title") \cup Of("past_events", "title")
         [] OTHER -> {}

\* The entity names of the context that occur in the message
NamedInMessage == {name \in EntityNames : Contains(name, user_message)}

\* C14 as stated: when the message holds the exact name of an entity of the
\* context, the handler replies with the detail template of an entity named
\* in the message, whatever else the message holds.
C14_EntityDetail ==
    (pc \in {"replied", "raised"} /\ NamedInMessage # {})
    => /\ pc = "replied"
       /\ \E name \in NamedInMessage :
            \/ Contains("information about **" \o name \o "**:\n\n", response)
            \/ Contains("Here's the full story about **" \o name \o "**:\n\n", response)
            \/ Contains("Here's the contact information for **" \o name \o "**:\n\n", response)

\* "Department of X" for "X Department" and the other way round; any other
\* name as it is
OtherWordOrder(name) ==
    LET front == "Department of "
        back == " Department"
    IN IF Len(name) > Len(front) /\ SubSeq(name, 1, Len(front)) = front
       THEN SubSeq(name, Len(front) + 1, Len(name)) \o back
       ELSE IF Len(name) > Len(back)
               /\ SubSeq(name, Len(name) - Len(back) + 1, Len(name)) = back
       THEN front \o SubSeq(name, 1, Len(name) - Len(back))
       ELSE name

\* The departments of the context that the message names in the other word
\* order
NamedInOtherOrder ==
    IF intent = "contact" /\ Has(context_data, "contact")
    THEN {context_data.contact[i].key :
            i \in {j \in 1..Len(context_data.contact) :
                      /\ OtherWordOrder(context_data.contact[j].key) # context_data.contact[j].key
                      /\ Contains(OtherWordOrder(context_data.contact[j].key), user_message)}}
    ELSE {}

\* C17 as stated: the contact handler selects the record "X Department" for
\* a message naming "Department of X", and the record "Department of X" for
\* a message naming "X Department": the reply is the detail template.
C17_BothWordOrders ==
    (pc \in {"replied", "raised"} /\ NamedInOtherOrder # {})
    => /\ pc = "replied"
       /\ \E department \in NamedInOtherOrder :
            Contains("Here's the contact information for **" \o department \o "**:\n\n", response)

\* The reply of the latest university-info call presents an entry of the
\* context whose lower-cased title satisfies Ok, selected by its title
RepliedByTitle(Ok(_)) ==
    /\ pc = "replied"
    /\ intent = "university_info"
    /\ Has(context_data, "university_info")
    /\ \E i \in 1..Len(context_data.university_info) :
         LET info_item == context_data.university_info[i].value
         IN /\ info_item.kind = "dict"
            /\ Ok(Lower(info_item.title))
            /\ SubSeq(response, 1, Len(info_item.title) + 7) = "? **" \o info_item.title \o "**\n"

\* C18 as stated: a pro-rector query never gets an entry selected by a plain
\* 'rector' title, and a rector query never gets an entry whose title holds
\* 'pro-rector', in whatever order the context lists its entries.
C18_RectorExclusive ==
    LET message_lower == Lower(user_message)
        pro_rector_query == AnyIn({"pro-rector", "pro rector"}, message_lower)
        rector_query == Contains("rector", message_lower) /\ ~pro_rector_query
    IN /\ pro_rector_query
          => ~RepliedByTitle(LAMBDA title : Contains("rector", title)
                                            /\ ~Contains("pro-rector", title))
       /\ rector_query
          => ~RepliedByTitle(LAMBDA title : Contains("pro-rector", title))

\* The latest handler call was handle_clubs on a context with clubs, none
\* of them with None for a name, and a message with a general-listing phrase
GeneralClubQuery ==
    /\ pc \in {"replied", "raised"}
    /\ intent = "clubs"
    /\ Has(context_data, "clubs")
    /\ Len(context_data.clubs) > 0
    /\ \A i \in 1..Len(context_data.clubs) : ~IsNull(context_data.clubs[i], "name")
    /\ AnyIn({"which clubs do we have", "list of clubs", "what clubs"}, Lower(user_message))

\* C19: a general-listing phrase in the message makes the clubs handler
\* reply with the listing of all clubs of the context, also when the message
\* names a club of the context; the detail reply of a club is not given.
C19_GeneralListingFirst ==
    GeneralClubQuery
    => /\ pc = "replied"
       /\ LET header == "? **Available Clubs at HMAWBI University:**\n\n"
          IN TakeStr(response, Len(header)) = header
       /\ \A i \in 1..Len(context_data.clubs) :
            Contains("? **" \o Fmt(context_data.clubs[i], "name", "Club") \o "**\n   ? Type: ",
                     response)
       /\ ~Contains("Here's information about **", response)

\* A general-listing phrase together with the name of a club of the context
C19_Witness ==
    /\ GeneralClubQuery
    /\ pc = "replied"
    /\ NamedInMessage # {}
    /\ Len(context_data.clubs) > 1
    /\ Contains("Available Clubs", response)

\* The events of a set of the context that have a title, as the events
\* handler keeps them
TitledEvents(key) ==
    IF Has(context_data, key)
    THEN FilterSeq(LAMBDA e : Truthy(e, "title"), context_data[key])
    ELSE <<>>

\* How many events of xs the reply lists by title and type
ListedEvents(xs) ==
    Cardinality({i \in 1..Len(xs) : Contains("**" \o xs[i].title \o "** (", response)})

AtMost3(n) == IF n < 3 THEN n ELSE 3

\* C20: the events handler answers a message holding a title of an upcoming
\* or a past event with the detail reply of that event, also when the
\* message holds a 'past events' phrase; else a message with 'past events' or
\* 'previous events' with a reply that lists past events only; else with
\* the upcoming section and the past section, each one present exactly when
\* its set is non-empty and listing its first three events at most.
C20_EventsReply ==
    (pc \in {"replied", "raised"} /\ intent = "events")
    => LET message_lower == Lower(user_message)
           upcoming_events == TitledEvents("events")
           past_events == TitledEvents("past_events")
           all_events == upcoming_events \o past_events
           named == {i \in 1..Len(all_events) :
                        Contains(Lower(all_events[i].title), message_lower)}
           detail(event) == "Here's information about **" \o event.title \o "**:\n\n"
       IN /\ pc = "replied"
          /\ IF named # {}
             THEN \E i \in named :
                    TakeStr(response, Len(detail(all_events[i]))) = detail(all_events[i])
             ELSE IF AnyIn({"past events", "previous events"}, message_lower)
             THEN /\ ListedEvents(upcoming_events) = 0
                  /\ ~Contains("Upcoming Events", response)
                  /\ ListedEvents(past_events) = AtMost3(Len(past_events))
                  /\ Len(past_events) > 0
                     => TakeStr(response, 37) = "Here are some of our previous events:"
             ELSE /\ Contains("**? Upcoming Events:**\n", response) <=> Len(upcoming_events) > 0
                  /\ Contains("**? Recent Past Events:**\n", response) <=> Len(past_events) > 0
                  /\ ListedEvents(upcoming_events) = AtMost3(Len(upcoming_events))
                  /\ ListedEvents(past_events) = AtMost3(Len(past_events))

\* A general events query on a context with more than three upcoming and
\* more than three past events
C20_Witness ==
    /\ pc = "replied"
    /\ intent = "events"
    /\ user_message = "upcoming events"
    /\ Len(TitledEvents("events")) > 3
    /\ Len(TitledEvents("past_events")) > 3
    /\ ListedEvents(TitledEvents("events")) = 3
    /\ ListedEvents(TitledEvents("past_events")) = 3

\* The latest handler call was handle_scholarships on a non-empty list
ScholarshipsCall ==
    /\ pc \in {"replied", "raised"}
    /\ intent = "scholarships"
    /\ Has(context_data, "scholarships")
    /\ Len(context_data.scholarships) > 0

\* The scholarships of the context whose name occurs in the message
NamedScholarships ==
    {i \in 1..Len(context_data.scholarships) :
        /\ Has(context_data.scholarships[i], "name")
        /\ ~IsNull(context_data.scholarships[i], "name")
        /\ Contains(Lower(context_data.scholarships[i].name), Lower(user_message))}

AtMost(cap, n) == IF n < cap THEN n ELSE cap

\* C21: on a non-empty context the scholarships handler gives the full
\* detail of one scholarship named in the message; else, for a message with
\* a details word, the full detail of the first three scholarships at most;
\* else a compact list of the first five at most, with name and benefit only.
C21_ScholarshipModes ==
    ScholarshipsCall
    => LET xs == context_data.scholarships
           message_lower == Lower(user_message)
           Name(i) == Fmt(xs[i], "name", "Scholarship")
           details == CountOf("? Eligibility Criteria: ", response)
       IN /\ pc = "replied"
          /\ IF NamedScholarships # {}
             THEN /\ \E i \in NamedScholarships :
                       LET opening == "Here's detailed information about **" \o Name(i)
                                      \o "**:\n\n? Description: "
                       IN TakeStr(response, Len(opening)) = opening
                  /\ details = 1
             ELSE IF AnyIn({"eligibility", "criteria", "requirements", "apply", "application",
                            "deadline", "how to", "details", "about", "benefits"}, message_lower)
             THEN /\ TakeStr(response, 59)
                        = "Here's detailed information about our scholarship programs:"
                  /\ details = AtMost(3, Len(xs))
                  /\ \A i \in 1..AtMost(3, Len(xs)) :
                        Contains("? **" \o Name(i) \o "**\n   ? Description: ", response)
             ELSE /\ details = 0
                  /\ ~Contains("Description: ", response)
                  /\ CountOf("\n? ", response) = AtMost(5, Len(xs)) + 1
                  /\ \A i \in 1..AtMost(5, Len(xs)) :
                        Contains("\n? " \o Name(i) \o ": "
                                 \o Fmt(xs[i], "benefit", "Financial assistance available")
                                 \o "\n", response)

\* A message with a scholarship name and a details word, on a context with
\* more than five scholarships: one scholarship is detailed
C21_Witness ==
    /\ ScholarshipsCall
    /\ pc = "replied"
    /\ Len(context_data.scholarships) > 5
    /\ NamedScholarships # {}
    /\ Contains("details", Lower(user_message))
    /\ CountOf("? Eligibility Criteria: ", response) = 1

\* The latest handler call was handle_news on a non-empty list of items
\* that all have a content
NewsCall ==
    /\ pc \in {"replied", "raised"}
    /\ intent = "news"
    /\ Has(context_data, "news")
    /\ Len(context_data.news) > 0
    /\ \A i \in 1..Len(context_data.news) :
         Has(context_data.news[i], "content") /\ ~IsNull(context_data.news[i], "content")

\* The news items of the context whose title occurs in the message
NamedNews ==
    {i \in 1..Len(context_data.news) :
        /\ Has(context_data.news[i], "title")
        /\ ~IsNull(context_data.news[i], "title")
        /\ Contains(Lower(context_data.news[i].title), Lower(user_message))}

\* The summary line of the i-th item of the context, if the reply shows it
SummaryShown(i) ==
    LET news_item == context_data.news[i]
        before == ToStr(i) \o ". **" \o Fmt(news_item, "title", "University News")
                  \o "** (" \o news_item.date \o ")\n   "
        at == CHOOSE k \in 1..Len(response) :
                 SubSeq(response, k, k + Len(before) - 1) = before
        rest == SubSeq(response, at + Len(before), Len(response))
        stop == CHOOSE k \in 1..Len(rest) : SubSeq(rest, k, k + 1) = "\n\n"
    IN IF Contains(before, response) THEN SubSeq(rest, 1, stop - 1) ELSE "(none)"

\* C22: the news list shows the first five items at most, each with its
\* content when that has at most 100 characters and with the first 97
\* characters and '...' otherwise, so no summary is longer than 100
\* characters; a title in the message gives the whole content.
C22_NewsSummaries ==
    NewsCall
    => LET news_items == context_data.news
       IN /\ pc = "replied"
          /\ IF NamedNews # {}
             THEN \E i \in NamedNews :
                    /\ TakeStr(response, 30) = "Here's the full story about **"
                    /\ Contains("**Content:**\n" \o news_items[i].content \o "\n", response)
             ELSE /\ CountOf("\n   ", response) = AtMost(5, Len(news_items))
                  /\ \A i \in 1..Len(news_items) :
                       IF i > 5 THEN SummaryShown(i) = "(none)"
                       ELSE /\ Len(SummaryShown(i)) <= 100
                            /\ SummaryShown(i) =
                                 IF Len(news_items[i].content) <= 100
                                 THEN news_items[i].content
                                 ELSE TakeStr(news_items[i].content, 97) \o "..."

\* A news list of more than five items, among its first five one content of
\* 100 characters and one of 101
C22_Witness ==
    /\ NewsCall
    /\ pc = "replied"
    /\ NamedNews = {}
    /\ Len(context_data.news) > 5
    /\ \E i, j \in 1..5 :
         /\ Len(context_data.news[i].content) = 100
         /\ Len(context_data.news[j].content) = 101
         /\ SummaryShown(i) = context_data.news[i].content
         /\ Len(SummaryShown(j)) = 100

\* The names of the records of the context of the latest handler call: the
\* entity names, the club names of a student-life context, the facilities
\* of a campus context
RecordNames ==
    IF intent = "student_life"
    THEN IF Has(context_data, "student_life")
            /\ Has(context_data.student_life, "clubs_organizations")
         THEN {context_data.student_life.clubs_organizations[i] :
                 i \in 1..Len(context_data.student_life.clubs_organizations)}
         ELSE {}
    ELSE IF intent = "campus"
    THEN IF Has(context_data, "campus") /\ Has(context_data.campus, "facilities")
            /\ context_data.campus.facilities.kind = "dict"
         THEN UNION {{entry.value[i] : i \in 1..Len(entry.value)} :
                        entry \in {context_data.campus.facilities.entries[j] :
                                      j \in 1..Len(context_data.campus.facilities.entries)}}
         ELSE {}
    ELSE EntityNames

\* How many records of the context the reply shows
ShownRecords == Cardinality({name \in RecordNames : Contains(name, response)})

\* C23 as stated: no reply of a category handler shows more than 8 records
\* of its context, however many records the context holds.
C23_ListsBounded ==
    pc = "replied" => ShownRecords <= 8

\* generate_response reached the analyzer with the data-unavailable reply of
\* the handler of a data-backed category
DataUnavailableReply ==
    /\ Finished
    /\ calls.analyze = 1
    /\ result.intent \in DataIntents
    /\ Contains("couldn't retrieve", result.message)

\* C24 as stated: the data-unavailable ("couldn't retrieve") reply of every
\* category is scored with helpfulness 0.6.
C24_UnavailableScore ==
    DataUnavailableReply => result.helpfulness = 6

\* The Content Store of the latest call was unavailable, failed, or held no
\* record, and the message was classified into a data-backed category
ServedWithoutRecords ==
    /\ Finished
    /\ calls.classify = 1
    /\ damage = "none"
    /\ intent \in DataIntents
    /\ (store.models # "ok" \/ store.rows = 0)

\* C25 as stated: when the Content Store is unavailable, fails or holds no
\* active record, generate_response for a message of a data-backed category
\* returns that category's intent and never intent 'error'.
C25_FallbackShape ==
    ServedWithoutRecords => result.intent = intent

\* The first record of the context of the latest call lacked its name or
\* title, or held None for its name, title or content
RecordLacksField ==
    /\ Finished
    /\ calls.handler = 1
    /\ damage # "none"
    /\ intent \in {"scholarships", "clubs", "events", "news"}
    /\ Has(context_data, intent)
    /\ Len(context_data[intent]) > 0

\* C26 as stated: a record that lacks a field never makes the reply fail:
\* the handler does not raise and the result keeps the category intent
\* instead of 'error'.
C26_GracefulDegradation ==
    RecordLacksField =>
        /\ result.intent = intent
        /\ result.message # APOLOGY_TEXT

\* The rows of the news table the chatbot must not show
HiddenNews ==
    {NewsTable(store)[i] : i \in {j \in 1..Len(NewsTable(store)) :
        ~(NewsTable(store)[j].is_published /\ NewsTable(store)[j].content_approved)}}

\* The rows of the news table whose title and content hold a denylisted keyword
DenylistedNews ==
    {NewsTable(store)[i] : i \in {j \in 1..Len(NewsTable(store)) :
        AnyIn({"prettiest", "ugliest", "worst teacher", "best looking", "hottest",
               "ranking students", "ranking staff", "personal appearance"},
              Lower(NewsTable(store)[j].title \o " " \o NewsTable(store)[j].content))}}

\* C27: after any sequence of admin saves and chatbot requests, the reply of
\* the chatbot shows no news item that is unpublished or not approved, and
\* every news item saved through the admin whose title and content hold a
\* denylisted keyword has content_approved false, whatever tick the
\* moderator set in the form.
C27_ApprovalGate ==
    /\ Finished => \A news \in HiddenNews : ~Contains(news.title, result.message)
    /\ \A news \in DenylistedNews : ~news.content_approved

\* The chatbot listed a visible item while the table held a published item
\* the admin had refused for its keyword
C27_Witness ==
    /\ Finished
    /\ result.intent = "news"
    /\ \E news \in DenylistedNews : news.is_published /\ news \in HiddenNews
    /\ \E i \in 1..Len(NewsTable(store)) :
         /\ NewsTable(store)[i] \notin HiddenNews
         /\ Contains(NewsTable(store)[i].title, result.message)

\* C28 as stated: the template prefix chosen at random is cosmetic: for the
\* message and the context of the call, every prefix the handler can choose
\* gives a result with the same helpfulness and the same other non-text
\* fields as the result returned.
C28_PrefixCosmetic ==
    (Finished /\ calls.analyze = 1) =>
        \A t \in Choices :
            LET made == _generate_rule_based_response(user_message, intent, context_data, t)
            IN /\ ~made.raised
               /\ _analyze_response(user_message, made.value).helpfulness = result.helpfulness
               /\ _analyze_response(user_message, made.value).is_urgent = result.is_urgent

\* process_message has answered with status 200
Answered200 == pc = "answered" /\ result.status = 200

\* The two newest rows of the Message table are the user message of the
\* request in flight and the bot message the response names, in the
\* conversation the request took from the session, and the row before them
\* is no user message
OneUserThenOneBot ==
    LET messages == store.messages
        n == Len(messages)
    IN /\ n >= 2
       /\ result.message_id = n
       /\ messages[n].message_type = "bot"
       /\ messages[n].content = result.bot_response
       /\ messages[n].conversation = calls.conversation
       /\ messages[n - 1].message_type = "user"
       /\ messages[n - 1].content = user_message
       /\ messages[n - 1].conversation = calls.conversation
       /\ n > 2 => messages[n - 2].message_type = "bot"

\* C29: every process_message request with a non-empty message that
\* answers 200 has appended one user Message followed by one bot Message
\* whose content is the returned bot_response; when the chatbot raised, the
\* reply persisted and returned is the fixed apology with helpfulness 0.3
\* and intent 'error'; a request with an empty message answers 400 and
\* persists nothing.
C29_PersistedExchange ==
    /\ [](Answered200 =>
            /\ user_message # ""
            /\ OneUserThenOneBot
            /\ "error_debug" \in DOMAIN result =>
                  /\ result.bot_response = "I'm sorry, I'm having trouble processing your request right now. Please try again or contact our student services office for immediate assistance."
                  /\ result.helpfulness = 3
                  /\ result.intent = "error"
                  /\ store.messages[Len(store.messages)].helpfulness_score = 3)
    /\ [][(pc = "idle" /\ pc' = "answered") =>
            /\ result'.status = 400
            /\ store' = store]_vars
    /\ [][(pc' = "answered" /\ pc # "answered" /\ user_message' = "") =>
            result'.status = 400]_vars

\* The second exchange of a session was answered with the apology after the
\* chatbot had raised
C29_Witness ==
    /\ Answered200
    /\ "error_debug" \in DOMAIN result
    /\ Len(store.messages) = 4
    /\ store.messages[3].content = user_message

\* C30 as stated: once a conversation has been marked inactive with
\* ended_at set, by clear_chat or by the cleanup, no Message is added to it
\* afterwards, whatever the interleaving of process_message, chat_view,
\* clear_chat and the cleanup.
C30_NoMessageAfterEnd ==
    [][\A i \in (Len(store.messages) + 1)..Len(store'.messages) :
          LET conversation == store.conversations[store'.messages[i].conversation]
          IN conversation.is_active /\ ~conversation.ended_at]_vars

====
